---- MODULE Spec2Model ----
(***************************************************************************)
(* Point / game / tiebreak / set / match state machine of                  *)
(* FantasyTennisSimulator (tennis/sim_models/main_sim/simulator.py) and    *)
(* the fantasy scoring of FantasyStats (tennis/sim_models/main_sim/        *)
(* stats.py).                                                              *)
(*                                                                         *)
(* Every call of the random generator is an input of the step that makes   *)
(* it.  Python integers are unbounded; the two deuce loops (game and       *)
(* tiebreak) are kept finite by storing a score that passed the cap one    *)
(* deuce cycle lower, which none of the loop conditions can tell apart.    *)
(***************************************************************************)
EXTENDS Integers, Sequences, FiniteSets, TLC

VARIABLES
    pc,               \* position of the running call
    best_of_5,        \* simulate_match_detailed argument
    surface,          \* simulate_match_detailed argument
    use_variance,     \* simulate_match_detailed argument
    p1_probs,         \* simulate_match_detailed local
    p2_probs,         \* simulate_match_detailed local
    sets,             \* simulate_match_detailed local: list of SetResult
    p1_sets,          \* simulate_match_detailed local
    p2_sets,          \* simulate_match_detailed local
    match_stats,      \* what simulate_match_detailed returns
    p1_games,         \* simulate_set local
    p2_games,         \* simulate_set local
    set_result,       \* what simulate_set returns
    server_name,      \* simulate_game argument
    game_situation,   \* simulate_game argument
    server_points,    \* simulate_game local
    returner_points,  \* simulate_game local
    points_played,    \* simulate_game local
    aces,             \* simulate_game local
    double_faults,    \* simulate_game local
    game_result,      \* what simulate_game returns
    last_point,       \* arguments of the latest simulate_point call
    p1_points,        \* simulate_tiebreak local
    p2_points,        \* simulate_tiebreak local
    tb_points_played, \* simulate_tiebreak local points_played
    tb_result,        \* what simulate_tiebreak returns
    tb_servers,       \* history: server of the first tiebreak points
    tb_started_at,    \* history: games score at which the tiebreak was called
    game_servers,     \* history: servers of the points of the running game
    variance_draws,   \* history: variance samplings per player in this match
    luck,             \* random source: "free", or who wins every point of the set
    calculated_stats, \* analyzer.calculated_stats: player -> stats dict
    elo_ratings,      \* analyzer.elo_ratings: player -> rating
    surface_elo_ratings, \* analyzer.surface_elo_ratings: surface -> player -> rating
    fs,               \* FantasyStats under calculate_fantasy_points
    fantasy_points,   \* what calculate_fantasy_points returns (hundredths)
    adj_in,           \* arguments of one get_match_adjusted_probabilities call
    adj_out,          \* what that call returns (thousandths of a percent)
    adj_again,        \* what the same call returns when repeated
    adj_draws,        \* history: random draws the calls on adj_in consumed
    fantasy_again,    \* what calculate_fantasy_points returns when repeated
    point_in,         \* arguments of one simulate_point call
    point_out,        \* what that call returns, with its locals
    elo_out,          \* calculate_elo_win_probability for a pair, both orders
    games_p1,         \* BettingSimulator._simulate_set local
    games_p2,         \* BettingSimulator._simulate_set local
    server,           \* BettingSimulator._simulate_set local
    service_won_p1,   \* BettingSimulator._simulate_set local
    service_played_p1, \* BettingSimulator._simulate_set local
    return_won_p1,    \* BettingSimulator._simulate_set local
    return_played_p1, \* BettingSimulator._simulate_set local
    service_won_p2,   \* BettingSimulator._simulate_set local
    service_played_p2, \* BettingSimulator._simulate_set local
    return_won_p2,    \* BettingSimulator._simulate_set local
    return_played_p2, \* BettingSimulator._simulate_set local
    tiebreak_winner,  \* BettingSimulator._simulate_set local (0 before)
    set_dict,         \* what BettingSimulator._simulate_set returns
    market,           \* BettingSimulator.simulate_match argument, with its odds
    match_result,     \* the MatchResult that a simulate_match returns
    results_history,  \* TennisSlateSimulator.results_history
    slate_call        \* the last TennisSlateSimulator call and what it returned

vars == <<pc, best_of_5, surface, use_variance, p1_probs, p2_probs, sets,
          p1_sets, p2_sets, match_stats, p1_games, p2_games, set_result,
          server_name, game_situation, server_points, returner_points,
          points_played, aces, double_faults, game_result, last_point,
          p1_points, p2_points, tb_points_played, tb_result, tb_servers,
          tb_started_at, game_servers, variance_draws, luck,
          calculated_stats, elo_ratings, surface_elo_ratings,
          fs, fantasy_points, adj_in, adj_out, adj_again, adj_draws,
          fantasy_again, point_in, point_out, elo_out,
          games_p1, games_p2, server, service_won_p1, service_played_p1,
          return_won_p1, return_played_p1, service_won_p2, service_played_p2,
          return_won_p2, return_played_p2, tiebreak_winner, set_dict,
          market, match_result, results_history, slate_call>>

matchVars == <<best_of_5, surface, use_variance, p1_probs, p2_probs, sets,
               p1_sets, p2_sets, match_stats>>
setVars   == <<p1_games, p2_games, set_result, tb_started_at>>
gameVars  == <<server_name, game_situation, server_points, returner_points,
               points_played, aces, double_faults, game_result, game_servers>>
tbVars    == <<p1_points, p2_points, tb_points_played, tb_result, tb_servers>>
scoreVars == <<fs, fantasy_points, fantasy_again>>
adjVars   == <<adj_in, adj_out, adj_again, adj_draws>>
storeVars == <<calculated_stats, elo_ratings, surface_elo_ratings>>
callVars  == <<point_in, point_out, elo_out>>
extVars   == <<games_p1, games_p2, server, service_won_p1, service_played_p1,
               return_won_p1, return_played_p1, service_won_p2,
               service_played_p2, return_won_p2, return_played_p2,
               tiebreak_winner, set_dict, market, match_result,
               results_history, slate_call>>

----------------------------------------------------------------------------
(* Bounds of the model *)

\* a game score of DeuceCap+1 all is stored as DeuceCap all
DeuceCap == 4
\* a tiebreak score of TbCap+2 all is stored as TbCap all
TbCap == 6
\* aces and double faults, taken together, played in one game
MaxServeEvents == 1
\* tiebreak points whose server is recorded in tb_servers
TbLogLen == 5
\* variance samplings counted per player
MaxDraws == 2
\* the set of a match whose points are unrestricted; every other set of the
\* match is won point by point by one of the players
FreeSet == 1

----------------------------------------------------------------------------
(* Values *)

P1 == "p1"
P2 == "p2"
Players == {P1, P2}
Other(p) == IF p = P1 THEN P2 ELSE P1

None == "None"
\* an absent or empty dict
NoDict == [k \in {} |-> TRUE]

DictGet(d, k, default) == IF k \in DOMAIN d THEN d[k] ELSE default

Min(a, b) == IF a < b THEN a ELSE b
Max(a, b) == IF a > b THEN a ELSE b

GameSituations ==
    { NoDict,
      [set_point |-> TRUE],
      [match_point |-> TRUE],
      [current_set |-> 3, surface |-> "Clay"] }

----------------------------------------------------------------------------
(* Numbers.  Rates are percentages held in thousandths of a percent         *)
(* (6.0 % is 6000); multipliers and weights are held in thousandths          *)
(* (0.85 is 850); a product is cut to that grid.                            *)

Surfaces == {"Hard", "Clay", "Grass"}
PressureTags == {"BP", "GP", "SP", "MP", "Deuce"}
RateKeys == {"ace_rate", "double_fault_rate", "service_points_won",
             "return_points_won"}

Mul(x, m) == (x * m) \div 1000
Clamp(lo, hi, x) == Max(lo, Min(hi, x))

\* a player without rating (None)
NoElo == -1

----------------------------------------------------------------------------
(* TennisStatsAnalyzer: get_player_stats, get_player_elo *)

\* the weight of the surface figures for a stats dict and a surface
SurfaceWeight(baseline_stats, surf) ==
    LET surface_prefs == DictGet(baseline_stats, "surface_preferences", NoDict)
        surface_pct == DictGet(surface_prefs, surf, 330)
        total_matches == DictGet(baseline_stats, "matches", 0)
        surface_matches == (total_matches * surface_pct) \div 1000
    IN  IF surface_matches < 5 THEN 300
        ELSE IF surface_matches < 10 THEN 500
        ELSE 700

SurfaceMultiplier(surf, stat) ==
    LET s == IF surf \in {"Clay", "Hard", "Grass"} THEN surf ELSE "Hard"
    IN  CASE s = "Clay" ->
               (CASE stat = "ace_rate" -> 850
                  [] stat = "double_fault_rate" -> 1100
                  [] stat = "service_points_won" -> 980
                  [] stat = "return_points_won" -> 1020)
          [] s = "Hard" -> 1000
          [] s = "Grass" ->
               (CASE stat = "ace_rate" -> 1150
                  [] stat = "double_fault_rate" -> 900
                  [] stat = "service_points_won" -> 1050
                  [] stat = "return_points_won" -> 950)

ApplySurfaceWeighting(baseline_stats, surf) ==
    LET surface_weight == SurfaceWeight(baseline_stats, surf)
    IN  [k \in DOMAIN baseline_stats \cup {"_surface_weight"} |->
           IF k = "_surface_weight" THEN surface_weight
           ELSE IF k \in RateKeys
             THEN LET baseline_val == baseline_stats[k]
                      surface_adjusted_val ==
                          Mul(baseline_val, SurfaceMultiplier(surf, k))
                  IN  (surface_weight * surface_adjusted_val
                         + (1000 - surface_weight) * baseline_val) \div 1000
             ELSE baseline_stats[k]]

\* get_player_stats(player_name, surface) with a surface given
GetPlayerStats(player_name, surf) ==
    LET baseline_stats == calculated_stats[player_name]
    IN  IF DOMAIN baseline_stats # {}
          THEN ApplySurfaceWeighting(baseline_stats, surf)
          ELSE baseline_stats

\* mutant: the weighting writes into the stored dict
CalculatedStatsAfterLookupInPlace(store, player_name, surf) ==
    [store EXCEPT ![player_name] =
        IF DOMAIN @ # {} THEN ApplySurfaceWeighting(@, surf) ELSE @]

\* calculated_stats after get_player_stats(player_name, surface): the
\* weighting works on baseline_stats.copy()
CalculatedStatsAfterLookup(store, player_name, surf) == store

\* get_player_elo(player_name, surface) with a surface given
GetPlayerElo(player_name, surf) ==
    LET overall_elo == elo_ratings[player_name]
        surface_elo == IF surf \in DOMAIN surface_elo_ratings
                         THEN surface_elo_ratings[surf][player_name]
                         ELSE NoElo
        baseline_stats == calculated_stats[player_name]
        surface_weight == SurfaceWeight(baseline_stats, surf)
    IN  IF overall_elo = NoElo \/ overall_elo = 0 THEN overall_elo
        ELSE IF surface_elo = NoElo \/ surface_elo = 0 THEN overall_elo
        ELSE IF DOMAIN baseline_stats = {} THEN surface_elo
        ELSE (surface_weight * surface_elo
                + (1000 - surface_weight) * overall_elo) \div 1000

----------------------------------------------------------------------------
(* FantasyTennisSimulator: get_player_probabilities *)

\* mutant: a player without stats and without rating gets an empty dict
GetPlayerProbabilitiesNoFallback(player_name, surf) ==
    LET known == GetPlayerStats(player_name, surf)
        elo_rating == GetPlayerElo(player_name, surf)
        elo_factor == Clamp(-800, 800, ((elo_rating - 1500) * 1000) \div 500)
        surface_weighted_stats ==
            IF DOMAIN known # {} THEN known
            ELSE IF elo_rating # NoElo /\ elo_rating # 0
              THEN [ ace_rate |-> 6000 + Mul(elo_factor, 2000),
                     double_fault_rate |-> 4000 - Mul(elo_factor, 1000),
                     first_serve_percentage |-> 62000 + Mul(elo_factor, 4000),
                     service_points_won |-> 62000 + Mul(elo_factor, 8000),
                     return_points_won |-> 38000 + Mul(elo_factor, 6000) ]
              ELSE NoDict
    IN  [ ace_rate |-> DictGet(surface_weighted_stats, "ace_rate", 6000),
          double_fault_rate |->
              DictGet(surface_weighted_stats, "double_fault_rate", 4000),
          first_serve_percentage |->
              DictGet(surface_weighted_stats, "first_serve_percentage", 60000),
          service_points_won |->
              DictGet(surface_weighted_stats, "service_points_won", 60000),
          return_points_won |->
              DictGet(surface_weighted_stats, "return_points_won", 40000) ]

GetPlayerProbabilities(player_name, surf) ==
    LET known == GetPlayerStats(player_name, surf)
        elo_rating == GetPlayerElo(player_name, surf)
        elo_factor == Clamp(-800, 800, ((elo_rating - 1500) * 1000) \div 500)
        surface_weighted_stats ==
            IF DOMAIN known # {} THEN known
            ELSE IF elo_rating # NoElo /\ elo_rating # 0
              THEN [ ace_rate |-> 6000 + Mul(elo_factor, 2000),
                     double_fault_rate |-> 4000 - Mul(elo_factor, 1000),
                     first_serve_percentage |-> 62000 + Mul(elo_factor, 4000),
                     service_points_won |-> 62000 + Mul(elo_factor, 8000),
                     return_points_won |-> 38000 + Mul(elo_factor, 6000) ]
              ELSE [ ace_rate |-> 6000,
                     double_fault_rate |-> 4000,
                     first_serve_percentage |-> 62000,
                     service_points_won |-> 62000,
                     return_points_won |-> 38000 ]
    IN  [ ace_rate |-> DictGet(surface_weighted_stats, "ace_rate", 6000),
          double_fault_rate |->
              DictGet(surface_weighted_stats, "double_fault_rate", 4000),
          first_serve_percentage |->
              DictGet(surface_weighted_stats, "first_serve_percentage", 60000),
          service_points_won |->
              DictGet(surface_weighted_stats, "service_points_won", 60000),
          return_points_won |->
              DictGet(surface_weighted_stats, "return_points_won", 40000) ]

----------------------------------------------------------------------------
(* FantasyTennisSimulator: get_match_adjusted_probabilities *)

PressureMultiplier(pressure_situation) ==
    CASE pressure_situation = "BP" -> 1000
      [] pressure_situation = "GP" -> 700
      [] pressure_situation = "SP" -> 1200
      [] pressure_situation = "MP" -> 1500
      [] pressure_situation = "Deuce" -> 500
      [] OTHER -> 500

GetClutchMultiplier(player_name, pressure_situation) ==
    LET player_stats == calculated_stats[player_name]
        base_clutch == DictGet(player_stats, "clutch_factor", 1000)
        pressure_mult == PressureMultiplier(pressure_situation)
        final_multiplier == 1000 + Mul(base_clutch - 1000, pressure_mult)
    IN  Clamp(700, 1300, final_multiplier)

\* the range random.uniform draws the variance factor of a rate from
VarianceBand(key) ==
    IF key \in {"service_points_won", "return_points_won"}
      THEN [lo |-> 900, hi |-> 1100]
      ELSE [lo |-> 880, hi |-> 1120]

\* the rates after the variance step; factor[key] is the uniform draw
\* mutant: the draws are applied whatever the flag says
WithVarianceAlways(probs, variance, factor) ==
    [k \in DOMAIN probs |->
        IF k \in RateKeys
          THEN Clamp(100, 99900, Mul(probs[k], factor[k]))
          ELSE probs[k]]

WithVariance(probs, variance, factor) ==
    [k \in DOMAIN probs |->
        IF variance /\ k \in RateKeys
          THEN Clamp(100, 99900, Mul(probs[k], factor[k]))
          ELSE probs[k]]

\* the rates after the clutch step of a break, game, set or match point
WithClutch(probs, clutch_multiplier) ==
    LET service == Mul(probs.service_points_won, clutch_multiplier)
        return == Mul(probs.return_points_won, clutch_multiplier)
        ace == IF clutch_multiplier > 1000
                 THEN Mul(probs.ace_rate, Min(1200, clutch_multiplier))
                 ELSE Mul(probs.ace_rate, Max(800, clutch_multiplier))
        df == IF clutch_multiplier > 1000
                THEN Mul(probs.double_fault_rate,
                         Max(800, 2000 - clutch_multiplier))
                ELSE Mul(probs.double_fault_rate,
                         Min(1300, 2000 - clutch_multiplier))
    IN  [ ace_rate |-> Clamp(500, 20000, ace),
          double_fault_rate |-> Clamp(500, 12000, df),
          first_serve_percentage |-> probs.first_serve_percentage,
          service_points_won |-> Clamp(30000, 85000, service),
          return_points_won |-> Clamp(15000, 70000, return) ]

\* get_match_adjusted_probabilities(player_name, surface, use_variance,
\* pressure_situation=...), factor being the uniform draws of the call
GetMatchAdjustedProbabilities(player_name, surf, variance, pressure_situation, factor) ==
    LET probs == GetPlayerProbabilities(player_name, surf)
        varied == WithVariance(probs, variance, factor)
    IN  IF pressure_situation \in {"BP", "GP", "SP", "MP"}
          THEN WithClutch(varied,
                          GetClutchMultiplier(player_name, pressure_situation))
          ELSE varied

----------------------------------------------------------------------------
(* get_match_adjusted_probabilities, as the call that produced a dict *)

\* The probability dict of one call: whose profile, for which surface, which
\* variance sampling of that player it carries (0: none) and the pressure tag.
ProbsCall(player, surf, variance, pressure_situation) ==
    [ player   |-> player,
      surface  |-> surf,
      variance |-> IF variance
                     THEN Min(variance_draws[player] + 1, MaxDraws)
                     ELSE 0,
      pressure |-> pressure_situation ]

\* the sampling counter of the players for whom a call with variance is made
DrawsAfter(draws, players, variance) ==
    [p \in Players |->
        IF variance /\ p \in players THEN Min(draws[p] + 1, MaxDraws)
                                     ELSE draws[p]]

----------------------------------------------------------------------------
(* simulate_point *)

\* The four draws of one point: first serve in, double-fault draw below the
\* rate, ace draw below the rate, rally draw below the server's probability.
PointDraws == [ is_first_serve : BOOLEAN, df : BOOLEAN, ace : BOOLEAN,
                rally : BOOLEAN ]

\* mutant: the double fault draw is made on either serve
SimulatePointFaultAnyServe(d) ==
    IF d.df
      THEN [winner |-> "returner", ace |-> FALSE, double_fault |-> TRUE]
      ELSE IF d.ace
        THEN [winner |-> "server", ace |-> TRUE, double_fault |-> FALSE]
        ELSE IF d.rally
          THEN [winner |-> "server", ace |-> FALSE, double_fault |-> FALSE]
          ELSE [winner |-> "returner", ace |-> FALSE, double_fault |-> FALSE]

SimulatePoint(d) ==
    IF ~d.is_first_serve /\ d.df
      THEN [winner |-> "returner", ace |-> FALSE, double_fault |-> TRUE]
      ELSE IF d.ace
        THEN [winner |-> "server", ace |-> TRUE, double_fault |-> FALSE]
        ELSE IF d.rally
          THEN [winner |-> "server", ace |-> FALSE, double_fault |-> FALSE]
          ELSE [winner |-> "returner", ace |-> FALSE, double_fault |-> FALSE]

NoProbs == [ player |-> None, surface |-> None, variance |-> 0,
             pressure |-> None ]
NoPoint == [ server_probs |-> NoProbs, returner_probs |-> NoProbs,
             pressure_situation |-> None, rally_context |-> NoDict ]

----------------------------------------------------------------------------
(* simulate_game *)

\* mutant: break and game point are seen at 40 only, not at advantage
GetPressureSituationAtForty(s, r, situation) ==
    IF r = 3 /\ s < 3 THEN "BP"
    ELSE IF s = 3 /\ r < 3 THEN "GP"
    ELSE IF s >= 3 /\ r >= 3 /\ s - r <= 1 /\ r - s <= 1 THEN "Deuce"
    ELSE IF DictGet(situation, "set_point", FALSE) THEN "SP"
    ELSE IF DictGet(situation, "match_point", FALSE) THEN "MP"
    ELSE None

GetPressureSituation(s, r, situation) ==
    IF r >= 3 /\ r > s /\ (r >= 4 \/ (r = 3 /\ s < 3)) THEN "BP"
    ELSE IF s >= 3 /\ s > r /\ (s >= 4 \/ (s = 3 /\ r < 3)) THEN "GP"
    ELSE IF s >= 3 /\ r >= 3 /\ s - r <= 1 /\ r - s <= 1 THEN "Deuce"
    ELSE IF DictGet(situation, "set_point", FALSE) THEN "SP"
    ELSE IF DictGet(situation, "match_point", FALSE) THEN "MP"
    ELSE None

\* mutant: the game is won on the fourth point only
GameWonOnFour(a, b) == a = 4 /\ a - b >= 2

\* the win test of the game loop for the side with a points against b
GameWon(a, b) == a >= 4 /\ a - b >= 2

returner_name == Other(server_name)

\* the dicts simulate_set hands to simulate_game
server_probs == IF server_name = P1 THEN p1_probs ELSE p2_probs
returner_probs == IF server_name = P1 THEN p2_probs ELSE p1_probs

\* One iteration of the loop of simulate_game.
GamePoint ==
    /\ pc = "game"
    /\ \E d \in PointDraws :
        LET pressure_situation ==
                GetPressureSituation(server_points, returner_points,
                                     game_situation)
            pressured == pressure_situation # None
            server_probs_adj ==
                IF pressured
                  THEN ProbsCall(server_name, "Hard", TRUE, pressure_situation)
                  ELSE server_probs
            returner_probs_adj ==
                IF pressured
                  THEN ProbsCall(returner_name, "Hard", TRUE,
                                 pressure_situation)
                  ELSE returner_probs
            rally_context ==
                [ server_name   |-> server_name,
                  returner_name |-> returner_name,
                  current_set   |-> DictGet(game_situation, "current_set", 1),
                  surface       |-> DictGet(game_situation, "surface", "Hard") ]
            point_result == SimulatePoint(d)
            n_aces == IF point_result.ace THEN aces + 1 ELSE aces
            n_dfs  == IF point_result.double_fault THEN double_faults + 1
                                                   ELSE double_faults
            s == IF point_result.winner = "server" THEN server_points + 1
                                                   ELSE server_points
            r == IF point_result.winner = "server" THEN returner_points
                                                   ELSE returner_points + 1
            n == points_played + 1
            past == s >= DeuceCap + 1 /\ r >= DeuceCap + 1
        IN  /\ luck \in {"free", IF point_result.winner = "server"
                                    THEN server_name ELSE returner_name}
            /\ n_aces + n_dfs <= MaxServeEvents
            /\ variance_draws' = DrawsAfter(variance_draws, Players, pressured)
            /\ calculated_stats' =
                   IF pressured
                     THEN CalculatedStatsAfterLookup(
                              CalculatedStatsAfterLookup(calculated_stats,
                                                         server_name, "Hard"),
                              returner_name, "Hard")
                     ELSE calculated_stats
            /\ last_point' = [ server_probs |-> server_probs_adj,
                               returner_probs |-> returner_probs_adj,
                               pressure_situation |-> pressure_situation,
                               rally_context |-> rally_context ]
            /\ game_servers' = game_servers \cup {rally_context.server_name}
            /\ aces' = n_aces
            /\ double_faults' = n_dfs
            /\ server_points' = IF past THEN s - 1 ELSE s
            /\ returner_points' = IF past THEN r - 1 ELSE r
            /\ points_played' = IF past THEN n - 2 ELSE n
            /\ IF GameWon(s, r)
                 THEN /\ game_result' =
                            [ winner |-> server_name, loser |-> returner_name,
                              points_played |-> n, aces |-> n_aces,
                              double_faults |-> n_dfs, break_point |-> FALSE ]
                      /\ pc' = "game_done"
                 ELSE IF GameWon(r, s)
                 THEN /\ game_result' =
                            [ winner |-> returner_name, loser |-> server_name,
                              points_played |-> n, aces |-> n_aces,
                              double_faults |-> n_dfs, break_point |-> TRUE ]
                      /\ pc' = "game_done"
                 ELSE /\ game_result' = game_result
                      /\ pc' = pc
    /\ UNCHANGED <<server_name, game_situation>>
    /\ UNCHANGED <<matchVars, setVars, tbVars, scoreVars, adjVars, elo_ratings,
                   surface_elo_ratings, callVars, extVars, luck>>

\* the point that ends the game
GameDecisivePoint == GamePoint /\ pc' = "game_done"

NoGameResult == [ winner |-> None, loser |-> None, points_played |-> 0,
                  aces |-> 0, double_faults |-> 0, break_point |-> FALSE ]

----------------------------------------------------------------------------
(* States in which a group of variables is not in use *)

NoTiebreakResult == [ winner |-> None, winner_points |-> 0, loser_points |-> 0 ]
NoSetResult == [ winner |-> None, loser |-> None, winner_games |-> 0,
                 loser_games |-> 0, tiebreak |-> FALSE,
                 tiebreak_score |-> <<0, 0>> ]
NoFantasyStats == [ match_won |-> FALSE ]
NoStats == [ p1_stats |-> NoFantasyStats, p2_stats |-> NoFantasyStats ]
NoAdjust == [ player_name |-> None ]
NoPointOut == [ winner |-> None ]
NoEloOut == [ forth |-> 0, back |-> 0 ]

\* the dict of a call without variance and without pressure tag
PlainProbs(player, surf) ==
    [ player |-> player, surface |-> surf, variance |-> 0, pressure |-> None ]

MatchIdle ==
    /\ best_of_5 = FALSE
    /\ surface = "Hard"
    /\ use_variance = FALSE
    /\ p1_probs = PlainProbs(P1, "Hard")
    /\ p2_probs = PlainProbs(P2, "Hard")
    /\ sets = <<>>
    /\ p1_sets = 0
    /\ p2_sets = 0
    /\ match_stats = NoStats
    /\ variance_draws = [p \in Players |-> 0]
    /\ luck = "free"

SetIdle ==
    /\ p1_games = 0
    /\ p2_games = 0
    /\ set_result = NoSetResult
    /\ tb_started_at = <<>>

GameIdle ==
    /\ server_name = P1
    /\ game_situation = NoDict
    /\ server_points = 0
    /\ returner_points = 0
    /\ points_played = 0
    /\ aces = 0
    /\ double_faults = 0
    /\ game_result = NoGameResult
    /\ game_servers = {}
    /\ last_point = NoPoint

TiebreakIdle ==
    /\ p1_points = 0
    /\ p2_points = 0
    /\ tb_points_played = 0
    /\ tb_result = NoTiebreakResult
    /\ tb_servers = <<>>

ScoreIdle ==
    /\ fs = NoFantasyStats
    /\ fantasy_points = 0
    /\ fantasy_again = 0

AdjustIdle ==
    /\ adj_in = NoAdjust
    /\ adj_out = NoAdjust
    /\ adj_again = NoAdjust
    /\ adj_draws = 0

CallIdle ==
    /\ point_in = NoPoint
    /\ point_out = NoPointOut
    /\ elo_out = NoEloOut

\* the variables of the betting and slate simulators before their calls
ExtIdle ==
    /\ games_p1 = 0
    /\ games_p2 = 0
    /\ server = 1
    /\ service_won_p1 = 0
    /\ service_played_p1 = 0
    /\ return_won_p1 = 0
    /\ return_played_p1 = 0
    /\ service_won_p2 = 0
    /\ service_played_p2 = 0
    /\ return_won_p2 = 0
    /\ return_played_p2 = 0
    /\ tiebreak_winner = 0
    /\ set_dict = [ winner |-> 0 ]
    /\ market = [ player1 |-> None ]
    /\ match_result = [ winner |-> None ]
    /\ results_history = <<>>
    /\ slate_call = [ op |-> None ]

\* stats dicts of the store: a tour regular, and the server of 95 % service
\* points won and 5 % double faults
TypicalStats ==
    [ ace_rate |-> 6500, double_fault_rate |-> 3500,
      first_serve_percentage |-> 61000, service_points_won |-> 62000,
      return_points_won |-> 38000, matches |-> 20, clutch_factor |-> 1100 ]
BigServerStats ==
    [ ace_rate |-> 15000, double_fault_rate |-> 5000,
      first_serve_percentage |-> 65000, service_points_won |-> 95000,
      return_points_won |-> 40000, matches |-> 40, clutch_factor |-> 850 ]

NoSurfaceElo == [s \in Surfaces |-> [p \in Players |-> NoElo]]

\* the store the match specifications run on
StoreFixed ==
    /\ calculated_stats = [p \in Players |->
                             IF p = P1 THEN TypicalStats ELSE NoDict]
    /\ elo_ratings = [p \in Players |-> IF p = P1 THEN 1900 ELSE 1600]
    /\ surface_elo_ratings = NoSurfaceElo

----------------------------------------------------------------------------
(* One call of simulate_game *)

InitGame ==
    /\ StoreFixed
    /\ pc = "game"
    /\ MatchIdle /\ SetIdle /\ TiebreakIdle /\ ScoreIdle /\ AdjustIdle
    /\ CallIdle /\ ExtIdle
    /\ server_name \in Players
    /\ game_situation \in GameSituations
    /\ server_points = 0
    /\ returner_points = 0
    /\ points_played = 0
    /\ aces = 0
    /\ double_faults = 0
    /\ game_result = NoGameResult
    /\ game_servers = {}
    /\ last_point = NoPoint

NextGame == GamePoint

SpecGame == InitGame /\ [][NextGame]_vars

\* C21: at every score a point of simulate_game is played at, the tag is BP
\* exactly when the returner is one point from the game (r >= 3, r > s), GP
\* exactly when the server is (s >= 3, s > r), Deuce exactly when s = r >= 3,
\* and otherwise none of the three: nothing, or what game_situation passes in.
C21_PressureTags ==
    [][pc = "game" =>
         LET s == server_points
             r == returner_points
             tag == last_point'.pressure_situation
         IN  /\ tag = "BP" <=> (r >= 3 /\ r > s)
             /\ tag = "GP" <=> (s >= 3 /\ s > r)
             /\ tag = "Deuce" <=> (s = r /\ s >= 3)
             /\ tag \in {"BP", "GP", "Deuce"}
                  \/ tag = (IF DictGet(game_situation, "set_point", FALSE)
                              THEN "SP"
                            ELSE IF DictGet(game_situation, "match_point",
                                            FALSE)
                              THEN "MP" ELSE None)]_vars

C21_Witness ==
    /\ pc = "game"
    /\ game_situation = NoDict
    /\ last_point.pressure_situation = "BP"
    /\ server_points = 4
    /\ returner_points = 4
    /\ points_played = 8

\* C1: every GameResult names a winner with at least 4 points and a lead of at
\* least 2 over the loser; the loop goes on only while neither side has that;
\* points_played is server points plus returner points; one player serves
\* every point of the game.
C1_GameResult ==
    /\ pc = "game" =>
         /\ ~(server_points >= 4 /\ server_points - returner_points >= 2)
         /\ ~(returner_points >= 4 /\ returner_points - server_points >= 2)
         /\ points_played = server_points + returner_points
    /\ pc = "game_done" =>
         LET w == IF game_result.winner = server_name THEN server_points
                                                      ELSE returner_points
             l == IF game_result.winner = server_name THEN returner_points
                                                      ELSE server_points
         IN  /\ game_result.winner \in Players
             /\ game_result.loser = Other(game_result.winner)
             /\ w >= 4
             /\ w - l >= 2
             /\ game_result.points_played = server_points + returner_points
             /\ game_result.break_point = (game_result.winner # server_name)
    /\ game_servers \subseteq {server_name}

\* a game that went through deuce and ended in a break of serve
C1_Witness ==
    /\ pc = "game_done"
    /\ game_result.break_point
    /\ game_result.points_played >= 8

----------------------------------------------------------------------------
(* simulate_tiebreak *)

\* the server of the point played after n points
TiebreakServer(n) ==
    IF n = 0 \/ ((n - 1) \div 2) % 2 = 0 THEN P1 ELSE P2

\* mutant: the tiebreak is won on the seventh point only
TiebreakWonOnSeven(a, b) == a = 7 /\ a - b >= 2

\* the win test of the tiebreak loop for the side with a points against b
TiebreakWon(a, b) == a >= 7 /\ a - b >= 2

\* One iteration of the loop of simulate_tiebreak.
TiebreakPoint ==
    /\ pc = "tiebreak"
    /\ \E d \in PointDraws :
        LET tb_server == TiebreakServer(tb_points_played)
            tb_returner == Other(tb_server)
            point_result == SimulatePoint(d)
            point_winner == IF point_result.winner = "server"
                              THEN tb_server ELSE tb_returner
            n == tb_points_played + 1
            a == IF point_winner = P1 THEN p1_points + 1 ELSE p1_points
            b == IF point_winner = P2 THEN p2_points + 1 ELSE p2_points
            past == a >= TbCap + 2 /\ b >= TbCap + 2
        IN  /\ luck \in {"free", point_winner}
            /\ last_point' =
                 [ server_probs |-> IF tb_server = P1 THEN p1_probs
                                                      ELSE p2_probs,
                   returner_probs |-> IF tb_server = P1 THEN p2_probs
                                                        ELSE p1_probs,
                   pressure_situation |-> None,
                   rally_context |-> NoDict ]
            /\ tb_servers' = IF Len(tb_servers) < TbLogLen
                               THEN Append(tb_servers, tb_server)
                               ELSE tb_servers
            /\ p1_points' = IF past THEN a - 2 ELSE a
            /\ p2_points' = IF past THEN b - 2 ELSE b
            /\ tb_points_played' = IF past THEN n - 4 ELSE n
            /\ IF TiebreakWon(a, b)
                 THEN /\ tb_result' = [ winner |-> P1, winner_points |-> a,
                                        loser_points |-> b ]
                      /\ pc' = "tb_done"
                 ELSE IF TiebreakWon(b, a)
                 THEN /\ tb_result' = [ winner |-> P2, winner_points |-> b,
                                        loser_points |-> a ]
                      /\ pc' = "tb_done"
                 ELSE /\ tb_result' = tb_result
                      /\ pc' = pc
    /\ UNCHANGED <<matchVars, setVars, gameVars, scoreVars, adjVars,
                   storeVars, callVars, extVars, variance_draws, luck>>

\* the tiebreak point that ends the tiebreak
TiebreakDecisivePoint == TiebreakPoint /\ pc' = "tb_done"

----------------------------------------------------------------------------
(* One call of simulate_tiebreak *)

InitTiebreak ==
    /\ StoreFixed
    /\ pc = "tiebreak"
    /\ SetIdle /\ GameIdle /\ ScoreIdle /\ AdjustIdle
    /\ CallIdle /\ ExtIdle
    /\ best_of_5 = FALSE
    /\ surface \in Surfaces
    /\ use_variance = FALSE
    /\ p1_probs = PlainProbs(P1, surface)
    /\ p2_probs = PlainProbs(P2, surface)
    /\ sets = <<>>
    /\ p1_sets = 0
    /\ p2_sets = 0
    /\ match_stats = NoStats
    /\ variance_draws = [p \in Players |-> 0]
    /\ luck = "free"
    /\ p1_points = 0
    /\ p2_points = 0
    /\ tb_points_played = 0
    /\ tb_result = NoTiebreakResult
    /\ tb_servers = <<>>

NextTiebreak == TiebreakPoint

SpecTiebreak == InitTiebreak /\ [][NextTiebreak]_vars

\* the loop of simulate_tiebreak keeps running (it has no other exit)
SpecTiebreakLoop == SpecTiebreak /\ WF_vars(TiebreakPoint)

\* C3: every tiebreak result names a winner with at least 7 points and a lead
\* of at least 2; the counts returned are (winner points, loser points); the
\* loop goes on only while neither side has 7 points and a lead of 2.
C3_TiebreakResult ==
    /\ pc = "tiebreak" =>
         /\ ~(p1_points >= 7 /\ p1_points - p2_points >= 2)
         /\ ~(p2_points >= 7 /\ p2_points - p1_points >= 2)
    /\ pc = "tb_done" =>
         LET w == IF tb_result.winner = P1 THEN p1_points ELSE p2_points
             l == IF tb_result.winner = P1 THEN p2_points ELSE p1_points
         IN  /\ tb_result.winner \in Players
             /\ tb_result.winner_points = w
             /\ tb_result.loser_points = l
             /\ w >= 7
             /\ w - l >= 2

\* a tiebreak won by the second player after 6 points all
C3_Witness ==
    /\ pc = "tb_done"
    /\ tb_result.winner = P2
    /\ tb_result.loser_points >= 6

\* C6 as claimed: simulate_tiebreak returns whatever the point outcomes are.
C6_AlwaysTerminates == <>(pc = "tb_done")

\* C6 amended: the loop runs as long as nobody has 7 points and a lead of 2
\* (no iteration cap stops it), and it returns provided a point that would
\* end the tiebreak, when possible again and again, is eventually played.
C6_FairTermination ==
    /\ [](pc = "tiebreak" => ENABLED TiebreakPoint)
    /\ (SF_vars(TiebreakDecisivePoint) => <>(pc = "tb_done"))

\* a tiebreak that was decided after more than twelve points
C6_Witness ==
    /\ pc = "tb_done"
    /\ tb_result.winner_points > 7

\* C7: the first player serves point 1, then the serve changes every two
\* points (second player on points 2 and 3, first on 4 and 5, ...), so nobody
\* serves three tiebreak points in a row.
C7_ServeOrder ==
    /\ \A i \in 1..Len(tb_servers) :
         tb_servers[i] = IF i = 1 THEN P1
                         ELSE IF ((i - 2) \div 2) % 2 = 0 THEN P2 ELSE P1
    /\ \A i \in 1..(Len(tb_servers) - 2) :
         ~(tb_servers[i] = tb_servers[i+1] /\ tb_servers[i+1] = tb_servers[i+2])

----------------------------------------------------------------------------
(* simulate_set *)

\* SetResult(winner, loser, winner_games, loser_games, tiebreak, score)
SetResult(winner, loser, winner_games, loser_games, tiebreak, score) ==
    [ winner |-> winner, loser |-> loser, winner_games |-> winner_games,
      loser_games |-> loser_games, tiebreak |-> tiebreak,
      tiebreak_score |-> score ]

\* the tiebreak_score of a SetResult built without one
NoScore == <<0, 0>>

\* mutant: a lead of one game is enough
SetWonLeadOne(a, b) == a >= 6 /\ a - b >= 1

\* the win test of the set loop for the side with a games against b
SetWon(a, b) == a >= 6 /\ a - b >= 2

\* the server of the game played after n games
SetServer(n) == IF n % 2 = 0 THEN P1 ELSE P2

\* Top of the loop of simulate_set: pick the server, call simulate_game.
SetStartGame ==
    /\ pc = "set"
    /\ server_name' = SetServer(p1_games + p2_games)
    /\ game_situation' = NoDict
    /\ server_points' = 0
    /\ returner_points' = 0
    /\ points_played' = 0
    /\ aces' = 0
    /\ double_faults' = 0
    /\ game_servers' = {}
    /\ game_result' = NoGameResult
    /\ last_point' = NoPoint
    /\ pc' = "game"
    /\ UNCHANGED <<matchVars, setVars, tbVars, scoreVars, adjVars,
                   storeVars, callVars, extVars, variance_draws, luck>>

\* simulate_game returned: count the game, test for the set win, or call
\* simulate_tiebreak at 6 games all.
SetGameReturn ==
    /\ pc = "game_done"
    /\ LET g1 == IF game_result.winner = P1 THEN p1_games + 1 ELSE p1_games
           g2 == IF game_result.winner = P1 THEN p2_games ELSE p2_games + 1
       IN  /\ p1_games' = g1
           /\ p2_games' = g2
           /\ IF SetWon(g1, g2)
                THEN /\ set_result' = SetResult(P1, P2, g1, g2, FALSE, NoScore)
                     /\ pc' = "set_done"
                     /\ UNCHANGED <<tbVars, tb_started_at>>
                ELSE IF SetWon(g2, g1)
                THEN /\ set_result' = SetResult(P2, P1, g2, g1, FALSE, NoScore)
                     /\ pc' = "set_done"
                     /\ UNCHANGED <<tbVars, tb_started_at>>
                ELSE IF g1 = 6 /\ g2 = 6
                THEN /\ p1_points' = 0
                     /\ p2_points' = 0
                     /\ tb_points_played' = 0
                     /\ tb_servers' = <<>>
                     /\ tb_started_at' = <<g1, g2>>
                     /\ pc' = "tiebreak"
                     /\ UNCHANGED <<set_result, tb_result>>
                ELSE /\ pc' = "set"
                     /\ UNCHANGED <<set_result, tbVars, tb_started_at>>
    /\ UNCHANGED <<matchVars, gameVars, last_point, scoreVars, adjVars,
                   storeVars, callVars, extVars, variance_draws, luck>>

\* simulate_tiebreak returned (winner, winner points, loser points), which
\* simulate_set unpacks as tb_winner, tb_p1_pts, tb_p2_pts.
SetTiebreakReturn ==
    /\ pc = "tb_done"
    /\ LET tb_winner == tb_result.winner
           tb_p1_pts == tb_result.winner_points
           tb_p2_pts == tb_result.loser_points
       IN  set_result' =
             IF tb_winner = P1
               THEN SetResult(P1, P2, 7, 6, TRUE, <<tb_p1_pts, tb_p2_pts>>)
               ELSE SetResult(P2, P1, 7, 6, TRUE, <<tb_p2_pts, tb_p1_pts>>)
    /\ pc' = "set_done"
    /\ UNCHANGED <<p1_games, p2_games, tb_started_at>>
    /\ UNCHANGED <<matchVars, gameVars, tbVars, last_point, scoreVars, adjVars,
                   storeVars, callVars, extVars, variance_draws, luck>>

----------------------------------------------------------------------------
(* One call of simulate_set *)

InitSet ==
    /\ StoreFixed
    /\ pc = "set"
    /\ MatchIdle /\ GameIdle /\ TiebreakIdle /\ ScoreIdle /\ AdjustIdle
    /\ CallIdle /\ ExtIdle
    /\ p1_games = 0
    /\ p2_games = 0
    /\ set_result = NoSetResult
    /\ tb_started_at = <<>>

NextSet ==
    \/ SetStartGame
    \/ GamePoint
    \/ SetGameReturn
    \/ TiebreakPoint
    \/ SetTiebreakReturn

SpecSet == InitSet /\ [][NextSet]_vars

\* C2: a SetResult is either won with at least 6 games and a lead of at least
\* 2 without tiebreak, or is 7-6 with tiebreak = true, the tiebreak having
\* been called at 6 games all and its winner being the set winner.
C2_SetResult ==
    /\ pc = "set_done" =>
         /\ set_result.winner \in Players
         /\ set_result.loser = Other(set_result.winner)
         /\ \/ /\ ~set_result.tiebreak
               /\ set_result.winner_games >= 6
               /\ set_result.winner_games - set_result.loser_games >= 2
               /\ set_result.winner_games =
                    (IF set_result.winner = P1 THEN p1_games ELSE p2_games)
               /\ set_result.loser_games =
                    (IF set_result.winner = P1 THEN p2_games ELSE p1_games)
               /\ tb_started_at = <<>>
            \/ /\ set_result.tiebreak
               /\ set_result.winner_games = 7
               /\ set_result.loser_games = 6
               /\ tb_started_at = <<6, 6>>
               /\ set_result.winner = tb_result.winner
    /\ pc \in {"tiebreak", "tb_done"} => tb_started_at = <<6, 6>>
    /\ pc \in {"set", "game", "game_done"} => tb_started_at = <<>>

\* a set the second player won in the tiebreak
C2_Witness ==
    /\ pc = "set_done"
    /\ set_result.tiebreak
    /\ set_result.winner = P2

----------------------------------------------------------------------------
(* FantasyStats *)

FantasyStats(player_name) ==
    [ player_name |-> player_name, match_won |-> FALSE, sets_won |-> 0,
      sets_lost |-> 0, games_won |-> 0, games_lost |-> 0, aces |-> 0,
      double_faults |-> 0, breaks |-> 0, clean_sets |-> 0,
      straight_sets |-> FALSE, no_double_faults |-> TRUE,
      ten_plus_aces |-> FALSE ]

AddSetWon(st, opponent_games) ==
    [st EXCEPT !.sets_won = @ + 1,
               !.clean_sets = IF opponent_games <= 2 THEN @ + 1 ELSE @]

\* mutant: a lost set is not counted
AddSetLostUncounted(st) == st

AddSetLost(st) == [st EXCEPT !.sets_lost = @ + 1]

FinalizeMatch(st, won_match) ==
    [st EXCEPT !.match_won = won_match,
               !.straight_sets = IF won_match /\ st.sets_lost = 0
                                   THEN TRUE ELSE @]

\* mutant: the best-of-5 ace bonus is given from 10 aces as in best-of-3
CalculateFantasyPointsTenAces(st, bo5) ==
    3000
    + (IF st.match_won THEN (IF bo5 THEN 500 ELSE 600) ELSE 0)
    + (IF bo5 THEN 500 ELSE 600) * st.sets_won
    + (IF bo5 THEN -250 ELSE -300) * st.sets_lost
    + (IF bo5 THEN 200 ELSE 250) * st.games_won
    + (IF bo5 THEN -160 ELSE -200) * st.games_lost
    + (IF bo5 THEN 25 ELSE 40) * st.aces
    - 100 * st.double_faults
    + (IF bo5 THEN 50 ELSE 75) * st.breaks
    + (IF bo5 THEN 250 ELSE 400) * st.clean_sets
    + (IF st.straight_sets THEN (IF bo5 THEN 500 ELSE 600) ELSE 0)
    + (IF st.no_double_faults THEN (IF bo5 THEN 500 ELSE 250) ELSE 0)
    + (IF st.aces >= 10 THEN 200 ELSE 0)

\* calculate_fantasy_points, in hundredths of a point
CalculateFantasyPoints(st, bo5) ==
    LET base == 3000
        won == IF st.match_won THEN base + (IF bo5 THEN 500 ELSE 600)
                               ELSE base
        set_win_points == IF bo5 THEN 500 ELSE 600
        set_loss_points == IF bo5 THEN -250 ELSE -300
        after_sets == won + set_win_points * st.sets_won
                          + set_loss_points * st.sets_lost
        game_win_points == IF bo5 THEN 200 ELSE 250
        game_loss_points == IF bo5 THEN -160 ELSE -200
        after_games == after_sets + game_win_points * st.games_won
                                  + game_loss_points * st.games_lost
        ace_points == IF bo5 THEN 25 ELSE 40
        after_aces == after_games + ace_points * st.aces
                                  - 100 * st.double_faults
        break_points == IF bo5 THEN 50 ELSE 75
        after_breaks == after_aces + break_points * st.breaks
        after_clean == IF st.clean_sets > 0
                         THEN after_breaks
                              + (IF bo5 THEN 250 ELSE 400) * st.clean_sets
                         ELSE after_breaks
        after_straight == IF st.straight_sets
                            THEN after_clean + (IF bo5 THEN 500 ELSE 600)
                            ELSE after_clean
        after_no_df == IF st.no_double_faults
                         THEN after_straight + (IF bo5 THEN 500 ELSE 250)
                         ELSE after_straight
    IN  IF (bo5 /\ st.aces >= 15) \/ (~bo5 /\ st.aces >= 10)
          THEN after_no_df + 200
          ELSE after_no_df

----------------------------------------------------------------------------
(* One call of calculate_fantasy_points *)

\* the FantasyStats objects the call is tried on
FantasyStatsSamples ==
    [ player_name : {P1}, match_won : BOOLEAN, sets_won : {0, 2},
      sets_lost : {0, 1}, games_won : {0, 13}, games_lost : {0, 7},
      aces : {0, 10, 14, 15}, double_faults : {0, 3}, breaks : {0, 2},
      clean_sets : {0, 2}, straight_sets : BOOLEAN,
      no_double_faults : BOOLEAN, ten_plus_aces : {FALSE} ]

\* mutant: the call records the ace bonus in the object
FantasyStatsAfterScoringFlagsAces(st, bo5) ==
    [st EXCEPT !.ten_plus_aces = (bo5 /\ st.aces >= 15) \/ (~bo5 /\ st.aces >= 10)]

\* the object after calculate_fantasy_points: the method assigns to the local
\* points only, never to a field of self
FantasyStatsAfterScoring(st, bo5) == st

ScoreCall ==
    /\ pc = "score"
    /\ fantasy_points' = CalculateFantasyPoints(fs, best_of_5)
    /\ fs' = FantasyStatsAfterScoring(fs, best_of_5)
    /\ pc' = "scored"
    /\ UNCHANGED <<fantasy_again, adjVars, storeVars, callVars, extVars, matchVars,
                   setVars, gameVars, tbVars, last_point, variance_draws, luck>>

\* the same call once more on the same object with the same flag
ScoreAgain ==
    /\ pc = "scored"
    /\ fantasy_again' = CalculateFantasyPoints(fs, best_of_5)
    /\ fs' = FantasyStatsAfterScoring(fs, best_of_5)
    /\ pc' = "scored_again"
    /\ UNCHANGED <<fantasy_points, adjVars, storeVars, callVars, extVars, matchVars,
                   setVars, gameVars, tbVars, last_point, variance_draws, luck>>

InitScore ==
    /\ StoreFixed
    /\ pc = "score"
    /\ SetIdle /\ GameIdle /\ TiebreakIdle /\ AdjustIdle
    /\ CallIdle /\ ExtIdle
    /\ best_of_5 \in BOOLEAN
    /\ surface = "Hard"
    /\ use_variance = FALSE
    /\ p1_probs = PlainProbs(P1, "Hard")
    /\ p2_probs = PlainProbs(P2, "Hard")
    /\ sets = <<>>
    /\ p1_sets = 0
    /\ p2_sets = 0
    /\ match_stats = NoStats
    /\ variance_draws = [p \in Players |-> 0]
    /\ luck = "free"
    /\ fs \in FantasyStatsSamples
    /\ fantasy_points = 0
    /\ fantasy_again = 0

NextScore ==
    \/ ScoreCall
    \/ ScoreAgain

SpecScore == InitScore /\ [][NextScore]_vars

\* C10: calculate_fantasy_points is the scoring table applied to the counters
\* (in hundredths): best-of-3 30 + 6 won + 6 sets won - 3 sets lost + 2.5 games
\* won - 2 games lost + 0.4 aces - 1 double faults + 0.75 breaks + 4 clean sets
\* + 6 straight sets + 2.5 no double faults + 2 for 10 aces; best-of-5 30 + 5
\* + 5 - 2.5 + 2 - 1.6 + 0.25 - 1 + 0.5 + 2.5 + 5 + 5 + 2 for 15 aces.
C10_ScoringTable ==
    LET Flag(b) == IF b THEN 1 ELSE 0
    IN
    pc = "scored" =>
      fantasy_points =
        IF best_of_5
          THEN 3000 + 500 * Flag(fs.match_won) + 500 * fs.sets_won
               - 250 * fs.sets_lost + 200 * fs.games_won - 160 * fs.games_lost
               + 25 * fs.aces - 100 * fs.double_faults + 50 * fs.breaks
               + 250 * fs.clean_sets + 500 * Flag(fs.straight_sets)
               + 500 * Flag(fs.no_double_faults) + 200 * Flag(fs.aces >= 15)
          ELSE 3000 + 600 * Flag(fs.match_won) + 600 * fs.sets_won
               - 300 * fs.sets_lost + 250 * fs.games_won - 200 * fs.games_lost
               + 40 * fs.aces - 100 * fs.double_faults + 75 * fs.breaks
               + 400 * fs.clean_sets + 600 * Flag(fs.straight_sets)
               + 250 * Flag(fs.no_double_faults) + 200 * Flag(fs.aces >= 10)

\* a best-of-5 score of a player with 14 aces, short of the 15-ace bonus
C10_Witness ==
    /\ pc = "scored"
    /\ best_of_5
    /\ fs.aces = 14
    /\ fs.clean_sets = 2
    /\ fs.straight_sets

----------------------------------------------------------------------------
(* calculate_match_stats *)

RECURSIVE CountSets(_, _, _)
\* the loop over the sets: <<p1_stats, p2_stats>> after sets[1..n]
CountSets(set_list, n, p1_name) ==
    IF n = 0
      THEN <<FantasyStats(p1_name), FantasyStats(Other(p1_name))>>
      ELSE LET before == CountSets(set_list, n - 1, p1_name)
               p1_stats == before[1]
               p2_stats == before[2]
               set_res == set_list[n]
           IN  IF set_res.winner = p1_name
                 THEN << [AddSetWon(p1_stats, set_res.loser_games) EXCEPT
                            !.games_won = @ + set_res.winner_games,
                            !.games_lost = @ + set_res.loser_games],
                         [AddSetLost(p2_stats) EXCEPT
                            !.games_won = @ + set_res.loser_games,
                            !.games_lost = @ + set_res.winner_games] >>
                 ELSE << [AddSetLost(p1_stats) EXCEPT
                            !.games_won = @ + set_res.loser_games,
                            !.games_lost = @ + set_res.winner_games],
                         [AddSetWon(p2_stats, set_res.loser_games) EXCEPT
                            !.games_won = @ + set_res.winner_games,
                            !.games_lost = @ + set_res.loser_games] >>

RECURSIVE TotalGames(_, _)
TotalGames(set_list, n) ==
    IF n = 0 THEN 0
    ELSE TotalGames(set_list, n - 1)
           + set_list[n].winner_games + set_list[n].loser_games

\* int(service_games * 4 * rate / 100), the rate in thousandths of a percent
EstimateCount(service_games, rate) ==
    Max(0, (service_games * 4 * rate) \div 100000)

CalculateMatchStats(set_list, p1_name, p2_name) ==
    LET counted == CountSets(set_list, Len(set_list), p1_name)
        p1_base == GetPlayerProbabilities(p1_name, "Hard")
        p2_base == GetPlayerProbabilities(p2_name, "Hard")
        total_games == TotalGames(set_list, Len(set_list))
        p1_service_games == total_games \div 2
                              + (IF total_games % 2 = 1 THEN 1 ELSE 0)
        p2_service_games == total_games \div 2
        p1_dfs == EstimateCount(p1_service_games, p1_base.double_fault_rate)
        p2_dfs == EstimateCount(p2_service_games, p2_base.double_fault_rate)
        p1_stats == [counted[1] EXCEPT
                       !.aces = EstimateCount(p1_service_games,
                                              p1_base.ace_rate),
                       !.double_faults = p1_dfs,
                       !.no_double_faults = (p1_dfs = 0),
                       !.breaks = Max(0, p2_service_games
                                           - counted[2].games_won \div 2)]
        p2_stats == [counted[2] EXCEPT
                       !.aces = EstimateCount(p2_service_games,
                                              p2_base.ace_rate),
                       !.double_faults = p2_dfs,
                       !.no_double_faults = (p2_dfs = 0),
                       !.breaks = Max(0, p1_service_games
                                           - counted[1].games_won \div 2)]
        p1_won == p1_stats.sets_won > p2_stats.sets_won
    IN  [ p1_stats |-> FinalizeMatch(p1_stats, p1_won),
          p2_stats |-> FinalizeMatch(p2_stats, ~p1_won) ]

----------------------------------------------------------------------------
(* simulate_match_detailed *)

SetsNeeded(bo5) == IF bo5 THEN 3 ELSE 2

\* mutant: the loop counts the sets played instead of the sets won
MatchGoesOnTotal(a, b, sets_needed) == a + b < sets_needed

\* the condition of the match loop
MatchGoesOn(a, b, sets_needed) == a < sets_needed /\ b < sets_needed

\* simulate_match_detailed up to its loop: the two probability dicts and the
\* counters.
MatchBegin ==
    /\ pc = "match_call"
    /\ p1_probs' = ProbsCall(P1, surface, use_variance, None)
    /\ p2_probs' = ProbsCall(P2, surface, use_variance, None)
    /\ variance_draws' = DrawsAfter(variance_draws, Players, use_variance)
    /\ sets' = <<>>
    /\ p1_sets' = 0
    /\ p2_sets' = 0
    /\ calculated_stats' =
           CalculatedStatsAfterLookup(
               CalculatedStatsAfterLookup(calculated_stats, P1, surface),
               P2, surface)
    /\ pc' = "match"
    /\ UNCHANGED <<best_of_5, surface, use_variance, match_stats, luck>>
    /\ UNCHANGED <<setVars, gameVars, tbVars, last_point, scoreVars, adjVars,
                   elo_ratings, surface_elo_ratings, callVars, extVars>>

\* The loop test holds: call simulate_set.  The random source of the set is
\* picked here.
MatchStartSet ==
    /\ pc = "match"
    /\ MatchGoesOn(p1_sets, p2_sets, SetsNeeded(best_of_5))
    /\ IF Len(sets) + 1 = FreeSet THEN luck' = "free" ELSE luck' \in Players
    /\ p1_games' = 0
    /\ p2_games' = 0
    /\ set_result' = NoSetResult
    /\ tb_started_at' = <<>>
    /\ pc' = "set"
    /\ UNCHANGED <<best_of_5, surface, use_variance, p1_probs, p2_probs, sets,
                   p1_sets, p2_sets, match_stats>>
    /\ UNCHANGED <<gameVars, tbVars, last_point, scoreVars, adjVars, storeVars, callVars, extVars,
                   variance_draws>>

\* simulate_set returned: append the set, count it for its winner.
MatchSetReturn ==
    /\ pc = "set_done"
    /\ sets' = Append(sets, set_result)
    /\ p1_sets' = IF set_result.winner = P1 THEN p1_sets + 1 ELSE p1_sets
    /\ p2_sets' = IF set_result.winner = P1 THEN p2_sets ELSE p2_sets + 1
    /\ pc' = "match"
    /\ UNCHANGED <<best_of_5, surface, use_variance, p1_probs, p2_probs,
                   match_stats, luck>>
    /\ UNCHANGED <<setVars, gameVars, tbVars, last_point, scoreVars, adjVars,
                   storeVars, callVars, extVars, variance_draws>>

\* The loop test fails: calculate_match_stats and return.
MatchFinish ==
    /\ pc = "match"
    /\ ~MatchGoesOn(p1_sets, p2_sets, SetsNeeded(best_of_5))
    /\ match_stats' = CalculateMatchStats(sets, P1, P2)
    /\ calculated_stats' =
           CalculatedStatsAfterLookup(
               CalculatedStatsAfterLookup(calculated_stats, P1, "Hard"),
               P2, "Hard")
    /\ pc' = "match_done"
    /\ UNCHANGED <<best_of_5, surface, use_variance, p1_probs, p2_probs, sets,
                   p1_sets, p2_sets, luck>>
    /\ UNCHANGED <<setVars, gameVars, tbVars, last_point, scoreVars, adjVars,
                   elo_ratings, surface_elo_ratings, callVars, extVars, variance_draws>>

----------------------------------------------------------------------------
(* One call of simulate_match_detailed *)

\* the surfaces matches are run on
MatchSurfaces == {"Hard", "Clay"}

InitMatch ==
    /\ StoreFixed
    /\ pc = "match_call"
    /\ SetIdle /\ GameIdle /\ TiebreakIdle /\ ScoreIdle /\ AdjustIdle
    /\ CallIdle /\ ExtIdle
    /\ best_of_5 \in BOOLEAN
    /\ surface \in MatchSurfaces
    /\ use_variance \in BOOLEAN
    /\ p1_probs = NoProbs
    /\ p2_probs = NoProbs
    /\ sets = <<>>
    /\ p1_sets = 0
    /\ p2_sets = 0
    /\ match_stats = NoStats
    /\ variance_draws = [p \in Players |-> 0]
    /\ luck = "free"

NextMatch ==
    \/ MatchBegin
    \/ MatchStartSet
    \/ SetStartGame
    \/ GamePoint
    \/ SetGameReturn
    \/ TiebreakPoint
    \/ SetTiebreakReturn
    \/ MatchSetReturn
    \/ MatchFinish

SpecMatch == InitMatch /\ [][NextMatch]_vars

\* the point outcomes are fair: the match keeps running, and a point that ends
\* a game or a tiebreak, when possible again and again, is eventually played
\* (checked on hard-court matches with variance, in both formats: the surface
\* and the variance flag select the dicts only)
InitMatchFair == InitMatch /\ surface = "Hard" /\ use_variance

FairSpecMatch ==
    /\ InitMatchFair
    /\ [][NextMatch]_vars
    /\ WF_vars(NextMatch)
    /\ SF_vars(GameDecisivePoint)
    /\ SF_vars(TiebreakDecisivePoint)

\* C4: when the match returns exactly one player has the required set count
\* (2 in best-of-3, 3 in best-of-5) and the other has fewer; between that
\* count and twice that count minus one sets were played; no set is played
\* once a player has the count; match_won is true for that player only; the
\* match does not return before a player has the count.
C4_MatchEnd ==
    LET required == IF best_of_5 THEN 3 ELSE 2
        last == Len(sets)
        won_before(p) ==
            Cardinality({i \in 1..(last - 1) : sets[i].winner = p})
        InSet == pc \in {"set", "game", "game_done", "tiebreak", "tb_done",
                         "set_done"}
    IN  /\ pc = "match_done" =>
             /\ \/ p1_sets = required /\ p2_sets < required
                \/ p2_sets = required /\ p1_sets < required
             /\ last >= required
             /\ last <= 2 * required - 1
             /\ last = p1_sets + p2_sets
             /\ \A p \in Players : won_before(p) < required
             /\ match_stats.p1_stats.match_won = (p1_sets = required)
             /\ match_stats.p2_stats.match_won = (p2_sets = required)
        /\ InSet => p1_sets < required /\ p2_sets < required
        /\ pc = "match" => p1_sets <= required /\ p2_sets <= required

\* a best-of-5 match the second player won in the fifth set
C4_Witness ==
    /\ pc = "match_done"
    /\ best_of_5
    /\ Len(sets) = 5
    /\ p2_sets = 3
    /\ match_stats.p2_stats.match_won
    /\ ~match_stats.p1_stats.match_won

\* C5: under fair point outcomes every call of simulate_match_detailed
\* returns.
C5_MatchReturns == <>(pc = "match_done")

\* a match that returned after a set whose tiebreak went beyond 6 points all
C5_Witness ==
    /\ pc = "match_done"
    /\ \E i \in 1..Len(sets) :
         /\ sets[i].tiebreak
         /\ sets[i].tiebreak_score[1] + sets[i].tiebreak_score[2] > 14

\* C8: in one match the variance of a player is sampled at most once, and not
\* at all when use_variance is false; every point is played with the two dicts
\* made at the start of the match.
C8_VarianceOncePerMatch ==
    pc # "match_call" =>
      /\ \A p \in Players :
           variance_draws[p] = (IF use_variance THEN 1 ELSE 0)
      /\ last_point # NoPoint =>
           /\ last_point.server_probs \in {p1_probs, p2_probs}
           /\ last_point.returner_probs \in {p1_probs, p2_probs}

\* C22: in a match, a point of a game whose winner can take the set with it is
\* played under the tag SP, and under MP when the set would give the match.
C22_SetAndMatchPointTags ==
    [][pc = "game" =>
         LET tag == last_point'.pressure_situation
             Pts(p) == IF p = server_name THEN server_points
                                          ELSE returner_points
             Games(p) == IF p = P1 THEN p1_games ELSE p2_games
             Sets(p) == IF p = P1 THEN p1_sets ELSE p2_sets
             GameBall(p) == Pts(p) >= 3 /\ Pts(p) > Pts(Other(p))
             SetBall(p) == /\ GameBall(p)
                           /\ Games(p) + 1 >= 6
                           /\ Games(p) + 1 - Games(Other(p)) >= 2
             MatchBall(p) == SetBall(p)
                               /\ Sets(p) + 1 = SetsNeeded(best_of_5)
         IN  /\ (\E p \in Players : MatchBall(p)) => tag = "MP"
             /\ ((\E p \in Players : SetBall(p))
                   /\ ~(\E p \in Players : MatchBall(p))) => tag = "SP"]_vars

\* C24: the aces and double faults of a player's final FantasyStats are
\* counted from the points the player served.  The last game of the match is
\* part of that count: its server ends the match with at least the aces and
\* the double faults that game's GameResult holds.
C24_AcesCountedFromPoints ==
    pc = "match_done"
      => LET last_server == IF game_result.break_point
                                THEN game_result.loser
                                ELSE game_result.winner
             st == IF last_server = P1 THEN match_stats.p1_stats
                                       ELSE match_stats.p2_stats
         IN  /\ st.aces >= game_result.aces
             /\ st.double_faults >= game_result.double_faults

\* C26: every point of a match is played on the surface of the match: the
\* probabilities of server and returner are those adjusted for that surface,
\* pressure points included, and the rally context, which gives the ELO
\* lookups their surface, names it.
C26_OneSurfacePerMatch ==
    [][pc = "game" =>
         /\ last_point'.server_probs.surface = surface
         /\ last_point'.returner_probs.surface = surface
         /\ last_point'.rally_context.surface = surface]_vars

\* C16: the two FantasyStats of a finished match mirror each other and the
\* set list: sets and games won by one player are those lost by the other,
\* sets_won + sets_lost is the number of sets played and games_won +
\* games_lost is the sum of winner_games + loser_games over the sets.
C16_StatsMirror ==
    pc = "match_done"
      => LET a == match_stats.p1_stats
             b == match_stats.p2_stats
             games == TotalGames(sets, Len(sets))
         IN  /\ a.sets_won = b.sets_lost
             /\ a.sets_lost = b.sets_won
             /\ a.games_won = b.games_lost
             /\ a.games_lost = b.games_won
             /\ a.sets_won + a.sets_lost = Len(sets)
             /\ b.sets_won + b.sets_lost = Len(sets)
             /\ a.games_won + a.games_lost = games
             /\ b.games_won + b.games_lost = games
             /\ a.sets_won = Cardinality({i \in 1..Len(sets) :
                                            sets[i].winner = P1})

C16_Witness ==
    /\ pc = "match_done"
    /\ Len(sets) = 3
    /\ match_stats.p1_stats.sets_won = 1
    /\ match_stats.p2_stats.sets_won = 2
    /\ sets[FreeSet].winner = P1
    /\ sets[FreeSet].loser_games = 5
    /\ match_stats.p1_stats.games_won = 7
    /\ match_stats.p2_stats.games_won = 17

\* C17: a match leaves the profiles alone: no step of simulate_match_detailed
\* changes calculated_stats or the ELO tables, and once the two probability
\* dicts of the match are made no game, tiebreak or point changes them.
C17_ProfilesUntouched ==
    [][/\ calculated_stats' = calculated_stats
       /\ elo_ratings' = elo_ratings
       /\ surface_elo_ratings' = surface_elo_ratings
       /\ pc # "match_call" => /\ p1_probs' = p1_probs
                               /\ p2_probs' = p2_probs]_vars

C17_Witness ==
    /\ pc = "match_done"
    /\ surface = "Clay"
    /\ calculated_stats[P1] = TypicalStats
    /\ p1_probs = ProbsCall(P1, "Clay", use_variance, None)
    /\ last_point.pressure_situation = "BP"
    /\ \E i \in 1..Len(sets) : sets[i].tiebreak

----------------------------------------------------------------------------
(* One call of get_match_adjusted_probabilities *)

\* the stats dict of a player at the upper ends of the ranges
\* _calculate_player_statistics keeps its rates in
TopStats ==
    [ ace_rate |-> 15000, double_fault_rate |-> 8000,
      first_serve_percentage |-> 65000, service_points_won |-> 75000,
      return_points_won |-> 45000, matches |-> 40, clutch_factor |-> 1200 ]

StatsProfiles == {NoDict, TypicalStats, TopStats, BigServerStats}
EloProfiles == {NoElo, 1500, 2100}

\* the values of the uniform draw of a rate: both ends of its range and 1.0
FactorValues(key) == {VarianceBand(key).lo, 1000, VarianceBand(key).hi}
Factors == { f \in [RateKeys -> {880, 900, 1000, 1100, 1120}] :
               \A k \in RateKeys : f[k] \in FactorValues(k) }

\* the random.uniform calls one call makes
UniformDraws(probs, variance) ==
    IF variance THEN Cardinality(DOMAIN probs \cap RateKeys) ELSE 0

AdjustCall ==
    /\ pc = "adjust"
    /\ \E factor \in Factors :
         adj_out' = GetMatchAdjustedProbabilities(
                        adj_in.player_name, adj_in.surface,
                        adj_in.use_variance, adj_in.pressure_situation, factor)
    /\ adj_draws' = adj_draws
         + UniformDraws(GetPlayerProbabilities(adj_in.player_name,
                                               adj_in.surface),
                        adj_in.use_variance)
    /\ pc' = "adjusted"
    /\ UNCHANGED <<adj_in, adj_again, storeVars, callVars, extVars, matchVars, setVars,
                   gameVars, tbVars, scoreVars, last_point, variance_draws,
                   luck>>

\* a second call with the same player, surface, flag and pressure tag
AdjustAgain ==
    /\ pc = "adjusted"
    /\ \E factor \in Factors :
         adj_again' = GetMatchAdjustedProbabilities(
                          adj_in.player_name, adj_in.surface,
                          adj_in.use_variance, adj_in.pressure_situation,
                          factor)
    /\ adj_draws' = adj_draws
         + UniformDraws(GetPlayerProbabilities(adj_in.player_name,
                                               adj_in.surface),
                        adj_in.use_variance)
    /\ pc' = "adjusted_again"
    /\ UNCHANGED <<adj_in, adj_out, storeVars, callVars, extVars, matchVars, setVars,
                   gameVars, tbVars, scoreVars, last_point, variance_draws,
                   luck>>

InitAdjust ==
    /\ pc = "adjust"
    /\ MatchIdle /\ SetIdle /\ GameIdle /\ TiebreakIdle /\ ScoreIdle
    /\ CallIdle /\ ExtIdle
    /\ \E st \in StatsProfiles :
         calculated_stats = [p \in Players |-> IF p = P1 THEN st ELSE NoDict]
    /\ \E e \in EloProfiles :
         elo_ratings = [p \in Players |-> IF p = P1 THEN e ELSE NoElo]
    /\ surface_elo_ratings = NoSurfaceElo
    /\ adj_in \in [ player_name : {P1}, surface : Surfaces,
                    use_variance : BOOLEAN,
                    pressure_situation : PressureTags \cup {None} ]
    /\ adj_out = NoAdjust
    /\ adj_again = NoAdjust
    /\ adj_draws = 0

NextAdjust ==
    \/ AdjustCall
    \/ AdjustAgain

SpecAdjust == InitAdjust /\ [][NextAdjust]_vars

\* C9: every rate get_match_adjusted_probabilities returns lies in its
\* documented range, for every profile, variance setting and pressure tag:
\* ace_rate in [0.5, 20], double_fault_rate in [0.5, 12], service_points_won
\* in [30, 85], return_points_won in [15, 70].
C9_RatesClamped ==
    pc = "adjusted" =>
      /\ adj_out.ace_rate >= 500 /\ adj_out.ace_rate <= 20000
      /\ adj_out.double_fault_rate >= 500 /\ adj_out.double_fault_rate <= 12000
      /\ adj_out.service_points_won >= 30000
      /\ adj_out.service_points_won <= 85000
      /\ adj_out.return_points_won >= 15000
      /\ adj_out.return_points_won <= 70000

\* C15: with use_variance false, two calls of
\* get_match_adjusted_probabilities with the same player, surface and pressure
\* tag (any tag, or none) return the same dict, and no random draw is made.
C15_RepeatableWithoutVariance ==
    (pc = "adjusted_again" /\ ~adj_in.use_variance)
      => /\ adj_again = adj_out
         /\ adj_draws = 0

C15_Witness ==
    /\ pc = "adjusted_again"
    /\ ~adj_in.use_variance
    /\ adj_in.pressure_situation = "BP"
    /\ calculated_stats[P1] = TypicalStats
    /\ adj_again = adj_out
    /\ adj_out # GetPlayerProbabilities(P1, adj_in.surface)

----------------------------------------------------------------------------
(* calculate_elo_win_probability.  Probabilities are held in thousandths;   *)
(* the ratings of the model are multiples of 100.                            *)

\* 10 ** (k / 10) for k = 1 .. 10, in thousandths
Pow10Table == <<1259, 1585, 1995, 2512, 3162, 3981, 5012, 6310, 7943, 10000>>

RECURSIVE Pow10Tenths(_)
Pow10Tenths(k) ==
    IF k = 0 THEN 1000
    ELSE IF k <= 10 THEN Pow10Table[k]
    ELSE 10 * Pow10Tenths(k - 10)

\* math.pow(10, elo_diff / k_factor) with k_factor = 1000, in thousandths
Pow10(elo_diff) ==
    IF elo_diff >= 0 THEN Pow10Tenths(elo_diff \div 100)
                     ELSE 1000000 \div Pow10Tenths((0 - elo_diff) \div 100)

\* mutant: the upper end of the clamp is 0.85
CalculateEloWinProbabilityWide(player1, player2, surf) ==
    LET elo1 == IF GetPlayerElo(player1, surf) = NoElo
                  THEN elo_ratings[player1] ELSE GetPlayerElo(player1, surf)
        elo2 == IF GetPlayerElo(player2, surf) = NoElo
                  THEN elo_ratings[player2] ELSE GetPlayerElo(player2, surf)
    IN  IF elo1 = NoElo \/ elo2 = NoElo THEN 500
        ELSE Clamp(200, 850, 1000000 \div (1000 + Pow10(elo2 - elo1)))

CalculateEloWinProbability(player1, player2, surf) ==
    LET elo1_surface == GetPlayerElo(player1, surf)
        elo2_surface == GetPlayerElo(player2, surf)
        \* get_player_elo(player) without surface returns the overall rating
        elo1 == IF elo1_surface = NoElo THEN elo_ratings[player1]
                                        ELSE elo1_surface
        elo2 == IF elo2_surface = NoElo THEN elo_ratings[player2]
                                        ELSE elo2_surface
    IN  IF elo1 = NoElo \/ elo2 = NoElo THEN 500
        ELSE LET elo_diff == elo2 - elo1
                 win_prob == 1000000 \div (1000 + Pow10(elo_diff))
             IN  Clamp(200, 800, win_prob)

\* the ratings the calls are tried on
EloValues == {NoElo, 1500, 1900, 2300}
SurfaceEloValues == {NoElo, 1700, 2100}

\* calculate_elo_win_probability(p1, p2, surface) and, on the same store,
\* calculate_elo_win_probability(p2, p1, surface)
EloCall ==
    /\ pc = "elo"
    /\ elo_out' = [ forth |-> CalculateEloWinProbability(P1, P2, surface),
                    back  |-> CalculateEloWinProbability(P2, P1, surface) ]
    /\ pc' = "elo_done"
    /\ UNCHANGED <<point_in, point_out, extVars, storeVars, matchVars, setVars, gameVars,
                   tbVars, scoreVars, adjVars, last_point, variance_draws,
                   luck>>

InitElo ==
    /\ pc = "elo"
    /\ SetIdle /\ GameIdle /\ TiebreakIdle /\ ScoreIdle /\ AdjustIdle
    /\ CallIdle /\ ExtIdle
    /\ best_of_5 = FALSE
    /\ surface \in MatchSurfaces
    /\ use_variance = FALSE
    /\ p1_probs = NoProbs
    /\ p2_probs = NoProbs
    /\ sets = <<>>
    /\ p1_sets = 0
    /\ p2_sets = 0
    /\ match_stats = NoStats
    /\ variance_draws = [p \in Players |-> 0]
    /\ luck = "free"
    /\ \E st \in {NoDict, TypicalStats} :
         calculated_stats = [p \in Players |-> IF p = P1 THEN st ELSE NoDict]
    /\ elo_ratings \in [Players -> EloValues]
    /\ \E se \in [Players -> SurfaceEloValues] :
         surface_elo_ratings = [s \in Surfaces |->
                                  IF s = "Clay" THEN se
                                  ELSE [p \in Players |-> NoElo]]

NextElo == EloCall

SpecElo == InitElo /\ [][NextElo]_vars

\* C12: for a pair of players and one surface the two win probabilities add up
\* to 1 (to the last digit kept, a thousandth), each lies in [0.20, 0.80], a
\* side clamped to 0.80 faces a side clamped to 0.20, and both are 0.5 when
\* either player has no ELO.
C12_EloSymmetry ==
    pc = "elo_done" =>
      /\ elo_out.forth + elo_out.back >= 999
      /\ elo_out.forth + elo_out.back <= 1001
      /\ elo_out.forth >= 200 /\ elo_out.forth <= 800
      /\ elo_out.back >= 200 /\ elo_out.back <= 800
      /\ elo_out.forth = 800 => elo_out.back = 200
      /\ elo_out.back = 800 => elo_out.forth = 200
      /\ (\E p \in Players : elo_ratings[p] = NoElo) =>
           elo_out.forth = 500 /\ elo_out.back = 500

\* a clay-court pair whose first player is clamped to 0.80 on surface rating
C12_Witness ==
    /\ pc = "elo_done"
    /\ surface = "Clay"
    /\ surface_elo_ratings["Clay"][P1] # NoElo
    /\ elo_out.forth = 800
    /\ elo_out.back = 200

----------------------------------------------------------------------------
(* simulate_point with its numbers: strengths in thousandths of a percent,  *)
(* multipliers, weights and probabilities in thousandths                     *)

GetRallyMultiplier(player_name, rally_length) ==
    LET player_stats == IF player_name \in DOMAIN calculated_stats
                          THEN calculated_stats[player_name] ELSE NoDict
        rally_type == DictGet(player_stats, "rally_type", "Consistent")
        base_multiplier == DictGet(player_stats, "rally_multiplier", 1000)
    IN  IF rally_length <= 3
          THEN (IF rally_type = "Quick Points" THEN Mul(base_multiplier, 1100)
                ELSE IF rally_type = "Grinder" THEN Mul(base_multiplier, 950)
                ELSE base_multiplier)
        ELSE IF rally_length <= 6 THEN base_multiplier
        ELSE (IF rally_type = "Grinder" THEN Mul(base_multiplier, 1150)
              ELSE IF rally_type = "Balanced Fighter"
                THEN Mul(base_multiplier, 1050)
              ELSE IF rally_type = "Quick Points"
                THEN Mul(base_multiplier, 850)
              ELSE base_multiplier)

GetFatigueMultiplier(player_name, current_set) ==
    IF current_set <= 2 THEN 1000
    ELSE LET player_stats == IF player_name \in DOMAIN calculated_stats
                               THEN calculated_stats[player_name] ELSE NoDict
             fatigue_resistance == DictGet(player_stats, "fatigue_resistance",
                                           1000)
             momentum_factor == DictGet(player_stats, "momentum_factor", 1000)
             set_fatigue == 1000 - Mul((current_set - 2) * 50,
                                       fatigue_resistance)
             final_multiplier == Mul(set_fatigue, momentum_factor)
         IN  Clamp(800, 1200, final_multiplier)

\* mutant: the band of gaps from 300 gives the random part 0.40
BlendWeightsHeavy(elo_diff) ==
    IF elo_diff >= 400
      THEN [elo_weight |-> 200, stats_weight |-> 650, random_weight |-> 150]
    ELSE IF elo_diff >= 300
      THEN [elo_weight |-> 150, stats_weight |-> 500, random_weight |-> 400]
    ELSE IF elo_diff >= 200
      THEN [elo_weight |-> 350, stats_weight |-> 550, random_weight |-> 100]
    ELSE IF elo_diff >= 100
      THEN [elo_weight |-> 300, stats_weight |-> 600, random_weight |-> 100]
    ELSE [elo_weight |-> 350, stats_weight |-> 550, random_weight |-> 100]

\* the weights simulate_point picks for an ELO gap
BlendWeights(elo_diff) ==
    IF elo_diff >= 400
      THEN [elo_weight |-> 200, stats_weight |-> 650, random_weight |-> 150]
    ELSE IF elo_diff >= 300
      THEN [elo_weight |-> 150, stats_weight |-> 500, random_weight |-> 350]
    ELSE IF elo_diff >= 200
      THEN [elo_weight |-> 350, stats_weight |-> 550, random_weight |-> 100]
    ELSE IF elo_diff >= 100
      THEN [elo_weight |-> 300, stats_weight |-> 600, random_weight |-> 100]
    ELSE [elo_weight |-> 350, stats_weight |-> 550, random_weight |-> 100]

\* mutant: one rating is enough for the blend
EloBlendAppliesEither(server_elo, returner_elo) ==
    (server_elo # NoElo /\ server_elo # 0)
      \/ (returner_elo # NoElo /\ returner_elo # 0)

\* `if server_elo and returner_elo`
EloBlendApplies(server_elo, returner_elo) ==
    /\ server_elo # NoElo /\ server_elo # 0
    /\ returner_elo # NoElo /\ returner_elo # 0

Abs(x) == IF x < 0 THEN 0 - x ELSE x

\* The locals of simulate_point on its way to the rally draw.
RallyLocals(srv_probs, ret_probs, rally_context, is_first_serve, rally_length) ==
    LET overall_service_rate == srv_probs.service_points_won
        base_server_strength ==
            IF is_first_serve THEN Min(85000, overall_service_rate + 14000)
                              ELSE Max(35000, overall_service_rate - 10000)
        base_returner_strength == ret_probs.return_points_won
        with_context == DOMAIN rally_context # {}
        srv_name == DictGet(rally_context, "server_name", "")
        ret_name == DictGet(rally_context, "returner_name", "")
        current_set == DictGet(rally_context, "current_set", 1)
        surf == DictGet(rally_context, "surface", "Hard")
        server_strength ==
            IF with_context
              THEN Mul(base_server_strength,
                       Mul(GetRallyMultiplier(srv_name, rally_length),
                           GetFatigueMultiplier(srv_name, current_set)))
              ELSE base_server_strength
        returner_strength ==
            IF with_context
              THEN Mul(base_returner_strength,
                       Mul(GetRallyMultiplier(ret_name, rally_length),
                           GetFatigueMultiplier(ret_name, current_set)))
              ELSE base_returner_strength
        total_strength == server_strength + returner_strength
        stats_server_prob == IF total_strength > 0
                               THEN (server_strength * 1000) \div total_strength
                               ELSE 500
        server_elo == IF with_context THEN GetPlayerElo(srv_name, surf)
                                      ELSE NoElo
        returner_elo == IF with_context THEN GetPlayerElo(ret_name, surf)
                                        ELSE NoElo
        blended == with_context /\ EloBlendApplies(server_elo, returner_elo)
        elo_win_prob == IF with_context
                          THEN CalculateEloWinProbability(srv_name, ret_name,
                                                          surf)
                          ELSE 0
        elo_diff == Abs(server_elo - returner_elo)
        w == IF blended THEN BlendWeights(elo_diff)
             ELSE [elo_weight |-> 0, stats_weight |-> 0, random_weight |-> 0]
    IN  [ server_strength |-> server_strength,
          returner_strength |-> returner_strength,
          stats_server_prob |-> stats_server_prob,
          elo_win_prob |-> elo_win_prob,
          blended |-> blended,
          elo_diff |-> IF blended THEN elo_diff ELSE 0,
          elo_weight |-> w.elo_weight,
          stats_weight |-> w.stats_weight,
          random_weight |-> w.random_weight,
          server_win_prob |->
              IF blended
                THEN (w.elo_weight * elo_win_prob
                        + w.stats_weight * stats_server_prob
                        + w.random_weight * 500) \div 1000
                ELSE stats_server_prob ]

\* rally lengths of the three bands _get_rally_multiplier tells apart
RallyLengths == {2, 5, 8}

\* a store entry that carries the rally fields simulate_point reads
GrinderStats ==
    [ ace_rate |-> 4000, double_fault_rate |-> 3000,
      first_serve_percentage |-> 64000, service_points_won |-> 60000,
      return_points_won |-> 42000, matches |-> 30, clutch_factor |-> 1000,
      rally_type |-> "Grinder", rally_multiplier |-> 1150,
      fatigue_resistance |-> 1200, momentum_factor |-> 900 ]

PointStats == {NoDict, TypicalStats, GrinderStats}
ServerEloValues == {NoElo, 1500}
ReturnerEloValues == {NoElo, 1500, 1600, 1700, 1800, 1900}
PointSets == {1, 3}

\* the outcomes of the uniform draws the rates allow
DrawAllowed(d, srv_probs) ==
    /\ d.is_first_serve => srv_probs.first_serve_percentage > 0
    /\ ~d.is_first_serve => srv_probs.first_serve_percentage < 100000
    /\ d.df => srv_probs.double_fault_rate > 0
    /\ d.ace => srv_probs.ace_rate > 0

\* simulate_point(server_probs, returner_probs, pressure_situation,
\* rally_context): the result dictionary, with the locals of the rally
PointCall ==
    /\ pc = "point"
    /\ \E d \in PointDraws, rally_length \in RallyLengths :
         LET r == SimulatePoint(d)
             rally_played == ~r.ace /\ ~r.double_fault
             locals == RallyLocals(point_in.server_probs,
                                   point_in.returner_probs,
                                   point_in.rally_context, d.is_first_serve,
                                   rally_length)
         IN  /\ DrawAllowed(d, point_in.server_probs)
             /\ rally_played /\ d.rally => locals.server_win_prob > 0
             /\ rally_played /\ ~d.rally => locals.server_win_prob < 1000
             /\ point_out' = [ winner |-> r.winner, ace |-> r.ace,
                               double_fault |-> r.double_fault,
                               is_first_serve |-> d.is_first_serve,
                               shots |-> IF rally_played THEN rally_length
                                         ELSE 1,
                               rally_played |-> rally_played,
                               rally |-> IF rally_played THEN locals
                                         ELSE NoDict ]
    /\ pc' = "point_done"
    /\ UNCHANGED <<point_in, elo_out, extVars, storeVars, matchVars, setVars, gameVars,
                   tbVars, scoreVars, adjVars, last_point, variance_draws,
                   luck>>

InitPoint ==
    /\ pc = "point"
    /\ SetIdle /\ GameIdle /\ TiebreakIdle /\ ScoreIdle /\ AdjustIdle
    /\ point_out = NoPointOut
    /\ elo_out = NoEloOut
    /\ ExtIdle
    /\ best_of_5 = FALSE
    /\ surface \in MatchSurfaces
    /\ use_variance = FALSE
    /\ p1_probs = NoProbs
    /\ p2_probs = NoProbs
    /\ sets = <<>>
    /\ p1_sets = 0
    /\ p2_sets = 0
    /\ match_stats = NoStats
    /\ variance_draws = [p \in Players |-> 0]
    /\ luck = "free"
    /\ calculated_stats \in [Players -> PointStats]
    /\ \E e1 \in ServerEloValues, e2 \in ReturnerEloValues :
         elo_ratings = [p \in Players |-> IF p = P1 THEN e1 ELSE e2]
    /\ surface_elo_ratings = NoSurfaceElo
    /\ \E ctx \in {NoDict}
                  \cup [ server_name : {P1}, returner_name : {P2},
                         current_set : PointSets, surface : {surface} ] :
         point_in = [ server_probs |-> GetPlayerProbabilities(P1, surface),
                      returner_probs |-> GetPlayerProbabilities(P2, surface),
                      pressure_situation |-> None,
                      rally_context |-> ctx ]

NextPoint == PointCall

SpecPoint == InitPoint /\ [][NextPoint]_vars

\* C13: when the server or the returner has no ELO rating, the rally of
\* simulate_point is decided by the statistics alone: the server wins it with
\* probability server_strength / (server_strength + returner_strength), no ELO
\* weight and no random weight enter, and the call returns a result.
C13_StatsOnlyWithoutElo ==
    (/\ pc = "point_done"
     /\ point_out.rally_played
     /\ \/ point_in.rally_context = NoDict
        \/ elo_ratings[P1] = NoElo
        \/ elo_ratings[P2] = NoElo)
      => /\ point_out.winner \in {"server", "returner"}
         /\ ~point_out.rally.blended
         /\ point_out.rally.elo_weight = 0
         /\ point_out.rally.random_weight = 0
         /\ point_out.rally.server_win_prob
              = (point_out.rally.server_strength * 1000)
                  \div (point_out.rally.server_strength
                          + point_out.rally.returner_strength)

C13_Witness ==
    /\ pc = "point_done"
    /\ point_out.rally_played
    /\ point_in.rally_context # NoDict
    /\ elo_ratings[P1] = 1500
    /\ elo_ratings[P2] = NoElo
    /\ point_out.winner = "server"
    /\ point_out.rally.server_win_prob = point_out.rally.stats_server_prob

\* C18: for every ELO gap the three blend weights of simulate_point sum to 1,
\* and the server-win probability of a blended rally is
\* w_elo * elo_prob + w_stats * stats_prob + w_random * 0.5, a value in [0, 1].
C18_WeightsSumToOne ==
    /\ \A g \in 0..500 :
         LET w == BlendWeights(g)
         IN  /\ w.elo_weight + w.stats_weight + w.random_weight = 1000
             /\ w.elo_weight >= 0 /\ w.stats_weight >= 0
             /\ w.random_weight >= 0
    /\ (pc = "point_done" /\ point_out.rally_played /\ point_out.rally.blended)
         => LET r == point_out.rally
            IN  /\ r.elo_weight + r.stats_weight + r.random_weight = 1000
                /\ r.server_win_prob
                     = (r.elo_weight * r.elo_win_prob
                          + r.stats_weight * r.stats_server_prob
                          + r.random_weight * 500) \div 1000
                /\ r.server_win_prob >= 0
                /\ r.server_win_prob <= 1000

C18_Witness ==
    /\ pc = "point_done"
    /\ point_out.rally_played
    /\ point_out.rally.blended
    /\ point_out.rally.elo_diff = 300
    /\ point_out.rally.random_weight = 350
    /\ point_out.rally.server_win_prob # point_out.rally.stats_server_prob

\* C19: the ELO weight never grows with the ELO gap: the weight a blended
\* rally used is not greater than the weight of any smaller gap.
C19_EloWeightFallsWithGap ==
    (pc = "point_done" /\ point_out.rally_played /\ point_out.rally.blended)
      => \A g \in 0..500 :
           g <= point_out.rally.elo_diff
             => point_out.rally.elo_weight <= BlendWeights(g).elo_weight

\* C20: a point ends as an ace, a double fault, a rally won by the server or a
\* rally won by the returner, and as one of them only: a double fault happens
\* on a second serve and gives the point to the returner, an ace gives it to
\* the server, and no point is both.
C20_PointOutcomes ==
    pc = "point_done"
      => LET o == point_out
             kinds == { k \in {"ace", "double_fault", "rally_server_win",
                               "rally_returner_win"} :
                          \/ k = "ace" /\ o.ace
                          \/ k = "double_fault" /\ o.double_fault
                          \/ k = "rally_server_win" /\ o.rally_played
                               /\ o.winner = "server"
                          \/ k = "rally_returner_win" /\ o.rally_played
                               /\ o.winner = "returner" }
         IN  /\ Cardinality(kinds) = 1
             /\ o.winner \in {"server", "returner"}
             /\ o.double_fault => ~o.is_first_serve /\ o.winner = "returner"
             /\ o.ace => o.winner = "server"
             /\ ~(o.ace /\ o.double_fault)

C20_Witness ==
    /\ pc = "point_done"
    /\ point_out.double_fault
    /\ ~point_out.is_first_serve
    /\ point_out.winner = "returner"
    /\ point_out.shots = 1

----------------------------------------------------------------------------
(* One call of get_player_probabilities *)

\* a stored stats dict that lacks three of the five rates
PartialStats == [ ace_rate |-> 9000, service_points_won |-> 66000,
                  matches |-> 12 ]

ProfileCall ==
    /\ pc = "profile"
    /\ adj_out' = GetPlayerProbabilities(adj_in.player_name, adj_in.surface)
    /\ pc' = "profiled"
    /\ UNCHANGED <<adj_in, adj_again, adj_draws, storeVars, callVars, extVars,
                   matchVars, setVars, gameVars, tbVars, scoreVars, last_point,
                   variance_draws, luck>>

InitProfile ==
    /\ pc = "profile"
    /\ MatchIdle /\ SetIdle /\ GameIdle /\ TiebreakIdle /\ ScoreIdle
    /\ CallIdle /\ ExtIdle
    /\ \E st \in {NoDict, TypicalStats, BigServerStats, GrinderStats,
                  PartialStats} :
         calculated_stats = [p \in Players |-> IF p = P1 THEN st ELSE NoDict]
    /\ \E e \in {NoElo, 0, 1100, 1500, 1700, 2300} :
         elo_ratings = [p \in Players |-> IF p = P1 THEN e ELSE NoElo]
    /\ \E se \in {NoElo, 1300} :
         surface_elo_ratings =
             [s \in Surfaces |->
                [p \in Players |-> IF s = "Clay" /\ p = P1 THEN se ELSE NoElo]]
    /\ adj_in \in [ player_name : Players, surface : Surfaces,
                    use_variance : {FALSE}, pressure_situation : {None} ]
    /\ adj_out = NoAdjust
    /\ adj_again = NoAdjust
    /\ adj_draws = 0

SpecProfile == InitProfile /\ [][ProfileCall]_vars

\* C14: get_player_probabilities returns, for every player name, a dict with
\* exactly the five rates: the stored (surface-weighted) rates of a player
\* with stats, the rates scaled from the rating of a player with a rating
\* only, and 6, 4, 62, 62, 38 for a player with neither.
C14_AlwaysFiveRates ==
    pc = "profiled"
      => LET name == adj_in.player_name
             stored == calculated_stats[name]
             weighted == GetPlayerStats(name, adj_in.surface)
             elo == GetPlayerElo(name, adj_in.surface)
             f == Clamp(-800, 800, (elo - 1500) * 2)
         IN  /\ DOMAIN adj_out = {"ace_rate", "double_fault_rate",
                                  "first_serve_percentage",
                                  "service_points_won", "return_points_won"}
             /\ \A k \in DOMAIN adj_out : adj_out[k] \in 0..100000
             /\ stored # NoDict
                  => /\ \A k \in DOMAIN adj_out \cap DOMAIN stored :
                          /\ adj_out[k] = weighted[k]
                          /\ adj_in.surface = "Hard" => adj_out[k] = stored[k]
                     /\ "first_serve_percentage" \in DOMAIN stored
                          => adj_out.first_serve_percentage
                               = stored.first_serve_percentage
             /\ (stored = NoDict /\ elo > 0)
                  => adj_out = [ ace_rate |-> 6000 + 2 * f,
                                 double_fault_rate |-> 4000 - f,
                                 first_serve_percentage |-> 62000 + 4 * f,
                                 service_points_won |-> 62000 + 8 * f,
                                 return_points_won |-> 38000 + 6 * f ]
             /\ (stored = NoDict /\ elo_ratings[name] \in {NoElo, 0})
                  => adj_out = [ ace_rate |-> 6000,
                                 double_fault_rate |-> 4000,
                                 first_serve_percentage |-> 62000,
                                 service_points_won |-> 62000,
                                 return_points_won |-> 38000 ]

C14_Witness ==
    /\ pc = "profiled"
    /\ adj_in.player_name = P1
    /\ calculated_stats[P1] = NoDict
    /\ elo_ratings[P1] = 1700
    /\ adj_in.surface = "Grass"
    /\ adj_out.ace_rate = 6800
    /\ adj_out.return_points_won = 40400

\* C23: every point of set n of a match is played with current_set = n, so
\* that from the third set on the fatigue multiplier of the server is
\* 1 - (n - 2) * 0.05 * fatigue_resistance times the momentum factor, clamped
\* to [0.8, 1.2].
C23_FatigueUsesSetNumber ==
    [][pc = "game" =>
         LET n == Len(sets) + 1
             ctx == last_point'.rally_context
             st == calculated_stats[server_name]
             degraded ==
                 Clamp(800, 1200,
                       Mul(1000 - Mul((n - 2) * 50,
                                      DictGet(st, "fatigue_resistance", 1000)),
                           DictGet(st, "momentum_factor", 1000)))
         IN  /\ ctx.current_set = n
             /\ n >= 3 => GetFatigueMultiplier(server_name, ctx.current_set)
                            = degraded]_vars

----------------------------------------------------------------------------
(* One call of calculate_match_stats on the set list of a finished match *)

\* sets as simulate_set returns them: 6-0, 6-4 and 7-6, won by either player
SetSamples ==
    UNION { { SetResult(w, Other(w), 6, 0, FALSE, NoScore),
              SetResult(w, Other(w), 6, 4, FALSE, NoScore),
              SetResult(w, Other(w), 7, 6, TRUE, <<7, 5>>) } : w \in Players }

StatsCall ==
    /\ pc = "stats_call"
    /\ match_stats' = CalculateMatchStats(sets, P1, P2)
    /\ pc' = "stats_done"
    /\ UNCHANGED <<best_of_5, surface, use_variance, p1_probs, p2_probs, sets,
                   p1_sets, p2_sets, setVars, gameVars, tbVars, scoreVars,
                   adjVars, storeVars, callVars, extVars, last_point, variance_draws,
                   luck>>

InitStats ==
    /\ pc = "stats_call"
    /\ SetIdle /\ GameIdle /\ TiebreakIdle /\ ScoreIdle /\ AdjustIdle
    /\ CallIdle /\ ExtIdle
    /\ \E st \in {TypicalStats, BigServerStats} :
         calculated_stats = [p \in Players |-> IF p = P1 THEN st ELSE NoDict]
    /\ elo_ratings = [p \in Players |-> IF p = P1 THEN 1900 ELSE 1600]
    /\ surface_elo_ratings = NoSurfaceElo
    /\ best_of_5 \in BOOLEAN
    /\ surface = "Hard"
    /\ use_variance = FALSE
    /\ p1_probs = PlainProbs(P1, "Hard")
    /\ p2_probs = PlainProbs(P2, "Hard")
    /\ \E n \in 2..5 : \E f \in [1..n -> SetSamples] :
         LET Won(p) == Cardinality({i \in 1..n : f[i].winner = p})
         IN  /\ \E p \in Players : /\ f[n].winner = p
                                   /\ Won(p) = SetsNeeded(best_of_5)
                                   /\ Won(Other(p)) < SetsNeeded(best_of_5)
             /\ sets = [i \in 1..n |-> f[i]]
             /\ p1_sets = Won(P1)
             /\ p2_sets = Won(P2)
    /\ match_stats = NoStats
    /\ variance_draws = [p \in Players |-> 0]
    /\ luck = "free"

SpecStats == InitStats /\ [][StatsCall]_vars

\* C25: in the FantasyStats of a match the bonus flags follow the counters:
\* straight_sets iff match_won with no set lost, clean_sets is the number of
\* sets won with at most 2 games to the opponent, no_double_faults iff
\* double_faults = 0, ten_plus_aces iff aces >= 10.
C25_FlagsFollowCounters ==
    pc = "stats_done"
      => \A p \in Players :
           LET st == IF p = P1 THEN match_stats.p1_stats
                               ELSE match_stats.p2_stats
           IN  /\ st.straight_sets <=> (st.match_won /\ st.sets_lost = 0)
               /\ st.clean_sets
                    = Cardinality({i \in 1..Len(sets) :
                                     /\ sets[i].winner = p
                                     /\ sets[i].loser_games <= 2})
               /\ st.no_double_faults <=> (st.double_faults = 0)
               /\ st.ten_plus_aces <=> (st.aces >= 10)

----------------------------------------------------------------------------
(* BettingSimulator._simulate_set.  params.p1_serve and params.p2_serve are *)
(* clamped to [0.40, 0.90], so the server can win or lose every game.        *)

\* the win test of the loop for the side with a games against b
BetSetWon(a, b) == (a >= 6 /\ a - b >= 2) \/ a = 7

\* One pass of the loop: a game, the win tests, the tiebreak at 6-6, the
\* change of server.
BetSetGame ==
    /\ pc = "bet_set"
    /\ \E game_won \in BOOLEAN, tb \in {1, 2} :
         LET p1_took == (server = 1) = game_won
             g1 == IF p1_took THEN games_p1 + 1 ELSE games_p1
             g2 == IF p1_took THEN games_p2 ELSE games_p2 + 1
             sp1 == IF server = 1 THEN service_played_p1 + 1
                                  ELSE service_played_p1
             sw1 == IF server = 1 /\ game_won THEN service_won_p1 + 1
                                              ELSE service_won_p1
             rp1 == IF server = 2 THEN return_played_p1 + 1
                                  ELSE return_played_p1
             rw1 == IF server = 2 /\ ~game_won THEN return_won_p1 + 1
                                               ELSE return_won_p1
             sp2 == IF server = 2 THEN service_played_p2 + 1
                                  ELSE service_played_p2
             sw2 == IF server = 2 /\ game_won THEN service_won_p2 + 1
                                              ELSE service_won_p2
             rp2 == IF server = 1 THEN return_played_p2 + 1
                                  ELSE return_played_p2
             rw2 == IF server = 1 /\ ~game_won THEN return_won_p2 + 1
                                               ELSE return_won_p2
             Returned(w) ==
                 [ winner |-> w, games_p1 |-> g1, games_p2 |-> g2,
                   service_won_p1 |-> sw1, service_played_p1 |-> sp1,
                   return_won_p1 |-> rw1, return_played_p1 |-> rp1,
                   service_won_p2 |-> sw2, service_played_p2 |-> sp2,
                   return_won_p2 |-> rw2, return_played_p2 |-> rp2 ]
             over == BetSetWon(g1, g2) \/ BetSetWon(g2, g1)
             tiebreak == ~over /\ g1 = 6 /\ g2 = 6
         IN  /\ set_dict' = IF BetSetWon(g1, g2) THEN Returned(1)
                            ELSE IF BetSetWon(g2, g1) THEN Returned(2)
                            ELSE set_dict
             /\ pc' = IF over THEN "bet_set_done" ELSE pc
             /\ tiebreak_winner' = IF tiebreak THEN tb ELSE tiebreak_winner
             /\ games_p1' = IF tiebreak /\ tb = 1 THEN 7 ELSE g1
             /\ games_p2' = IF tiebreak /\ tb = 2 THEN 7 ELSE g2
             /\ service_played_p1' = IF tiebreak THEN sp1 + 3 ELSE sp1
             /\ service_played_p2' = IF tiebreak THEN sp2 + 3 ELSE sp2
             /\ return_played_p1' = IF tiebreak THEN rp1 + 3 ELSE rp1
             /\ return_played_p2' = IF tiebreak THEN rp2 + 3 ELSE rp2
             /\ service_won_p1' = IF tiebreak /\ tb = 1 THEN sw1 + 2 ELSE sw1
             /\ return_won_p1' = IF tiebreak /\ tb = 1 THEN rw1 + 1 ELSE rw1
             /\ service_won_p2' = IF tiebreak /\ tb = 2 THEN sw2 + 2 ELSE sw2
             /\ return_won_p2' = IF tiebreak /\ tb = 2 THEN rw2 + 1 ELSE rw2
             /\ server' = IF over THEN server
                          ELSE IF server = 1 THEN 2 ELSE 1
    /\ UNCHANGED <<matchVars, setVars, gameVars, tbVars, scoreVars, adjVars,
                   storeVars, callVars, last_point, variance_draws, luck,
                   market, match_result, results_history, slate_call>>

InitBetSet ==
    /\ StoreFixed
    /\ pc = "bet_set"
    /\ MatchIdle /\ SetIdle /\ GameIdle /\ TiebreakIdle /\ ScoreIdle
    /\ AdjustIdle /\ CallIdle /\ ExtIdle

SpecBetSet == InitBetSet /\ [][BetSetGame]_vars

\* C27: every set _simulate_set returns has a tennis score with the winner
\* ahead, 6-0 to 6-4, 7-5 or 7-6; a set that reached 6 games all is decided by
\* its tiebreak: the tiebreak winner wins the set 7-6 and no game follows.
C27_ValidSetScore ==
    pc = "bet_set_done"
      => LET w == IF set_dict.winner = 1 THEN set_dict.games_p1
                                         ELSE set_dict.games_p2
             l == IF set_dict.winner = 1 THEN set_dict.games_p2
                                         ELSE set_dict.games_p1
         IN  /\ set_dict.winner \in {1, 2}
             /\ w > l
             /\ \/ w = 6 /\ l <= 4
                \/ w = 7 /\ l = 5
                \/ w = 7 /\ l = 6
             /\ tiebreak_winner # 0
                  => /\ set_dict.winner = tiebreak_winner
                     /\ w = 7 /\ l = 6
             /\ (w = 7 /\ l = 6) => tiebreak_winner # 0

----------------------------------------------------------------------------
(* BettingSimulator.simulate_match and the MatchResult it builds *)

\* MatchResult.__post_init__
MatchResultPostInit(r) ==
    LET total == r.games_won_p1 + r.games_won_p2
    IN  [r EXCEPT !.total_games = total,
                  !.match_duration_minutes = Max(60, total * 4),
                  !.actual_winner_was_favorite =
                      IF r.market_win_prob_p1 > 500 THEN r.winner = r.player1
                                                    ELSE r.winner = r.player2]

\* MatchResult(player1=..., player2=..., surface=..., market_win_prob_p1=...):
\* the other fields take their defaults, then __post_init__ runs
MatchResult(player1, player2, market_win_prob_p1) ==
    MatchResultPostInit(
        [ player1 |-> player1, player2 |-> player2, winner |-> "",
          sets_won_p1 |-> 0, sets_won_p2 |-> 0, games_won_p1 |-> 0,
          games_won_p2 |-> 0, total_games |-> 0, match_duration_minutes |-> 0,
          market_win_prob_p1 |-> market_win_prob_p1,
          actual_winner_was_favorite |-> TRUE ])

\* what _simulate_tennis_match returns for a best-of-3 match: the winner, the
\* sets and the games of both players
MatchData ==
    { d \in [ winner : {1, 2}, sets_p1 : 0..2, sets_p2 : 0..2,
              games_p1 : {0, 7, 12, 13, 19}, games_p2 : {0, 7, 12, 13, 19} ] :
        /\ d.winner = 1 => d.sets_p1 = 2 /\ d.sets_p2 < 2 /\ d.games_p1 >= 12
        /\ d.winner = 2 => d.sets_p2 = 2 /\ d.sets_p1 < 2 /\ d.games_p2 >= 12 }

BetMatchCall ==
    /\ pc = "bet_match"
    /\ \E match_data \in MatchData :
         LET result == MatchResult(market.player1, market.player2,
                                   market.target_p1_prob)
         IN  match_result' =
               [result EXCEPT
                  !.sets_won_p1 = match_data.sets_p1,
                  !.sets_won_p2 = match_data.sets_p2,
                  !.games_won_p1 = match_data.games_p1,
                  !.games_won_p2 = match_data.games_p2,
                  !.winner = IF match_data.winner = 1 THEN market.player1
                                                      ELSE market.player2]
    /\ pc' = "bet_match_done"
    /\ UNCHANGED <<matchVars, setVars, gameVars, tbVars, scoreVars, adjVars,
                   storeVars, callVars, last_point, variance_draws, luck,
                   games_p1, games_p2, server, service_won_p1,
                   service_played_p1, return_won_p1, return_played_p1,
                   service_won_p2, service_played_p2, return_won_p2,
                   return_played_p2, tiebreak_winner, set_dict, market,
                   results_history, slate_call>>

InitBetMatch ==
    /\ StoreFixed
    /\ pc = "bet_match"
    /\ MatchIdle /\ SetIdle /\ GameIdle /\ TiebreakIdle /\ ScoreIdle
    /\ AdjustIdle /\ CallIdle
    /\ games_p1 = 0 /\ games_p2 = 0 /\ server = 1 /\ tiebreak_winner = 0
    /\ service_won_p1 = 0 /\ service_played_p1 = 0
    /\ return_won_p1 = 0 /\ return_played_p1 = 0
    /\ service_won_p2 = 0 /\ service_played_p2 = 0
    /\ return_won_p2 = 0 /\ return_played_p2 = 0
    /\ set_dict = [ winner |-> 0 ]
    /\ market \in [ player1 : {P1}, player2 : {P2},
                    target_p1_prob : {300, 500, 700} ]
    /\ match_result = [ winner |-> None ]
    /\ results_history = <<>>
    /\ slate_call = [ op |-> None ]

SpecBetMatch == InitBetMatch /\ [][BetMatchCall]_vars

\* C28: in the MatchResult simulate_match returns, total_games is
\* games_won_p1 + games_won_p2, match_duration_minutes is
\* max(60, 4 * total_games), and actual_winner_was_favorite tells whether the
\* winner is the player the market favours (player1 above 0.5, else player2).
C28_DerivedFields ==
    pc = "bet_match_done"
      => LET r == match_result
         IN  /\ r.total_games = r.games_won_p1 + r.games_won_p2
             /\ r.match_duration_minutes = Max(60, 4 * r.total_games)
             /\ r.actual_winner_was_favorite
                  <=> (r.winner = (IF r.market_win_prob_p1 > 500
                                     THEN r.player1 ELSE r.player2))

----------------------------------------------------------------------------
(* TennisSlateSimulator: the history of simulated slates *)

\* the longest results_history the model builds
MaxHistory == 4

\* the slates (lists of matches) a caller passes, by name
Slates == {"slate_a", "slate_b"}

\* simulate_slate(matches, simulation_id): the SlateSimulation it builds and
\* appends. The optional simulation_id is <<>> for None and <<i>> for i; None
\* becomes len(results_history) + 1
SimulateSlateOn(history, matches, simulation_id) ==
    LET id == IF simulation_id = <<>> THEN Len(history) + 1
                                      ELSE simulation_id[1]
    IN  Append(history, [ simulation_id |-> id, matches |-> matches ])

\* results_history after the loop of simulate_multiple_slates has made its
\* calls simulate_slate(matches, simulation_id=i) for i = 1..n
RECURSIVE SimulateSlatesOn(_, _, _)
SimulateSlatesOn(history, matches, n) ==
    IF n = 0 THEN history
    ELSE SimulateSlateOn(SimulateSlatesOn(history, matches, n - 1), matches,
                         <<n>>)

SimulateSlate ==
    /\ pc = "slate"
    /\ Len(results_history) < MaxHistory
    /\ \E matches \in Slates :
         /\ results_history' = SimulateSlateOn(results_history, matches, <<>>)
         /\ slate_call' = [ op |-> "simulate_slate", matches |-> matches,
                            slates |-> 1 ]
    /\ UNCHANGED <<pc, matchVars, setVars, gameVars, tbVars, scoreVars,
                   adjVars, storeVars, callVars, last_point, variance_draws,
                   luck, games_p1, games_p2, server, service_won_p1,
                   service_played_p1, return_won_p1, return_played_p1,
                   service_won_p2, service_played_p2, return_won_p2,
                   return_played_p2, tiebreak_winner, set_dict, market,
                   match_result>>

SimulateMultipleSlates ==
    /\ pc = "slate"
    /\ \E matches \in Slates, num_simulations \in 0..2 :
         /\ Len(results_history) + num_simulations <= MaxHistory
         /\ results_history' =
               SimulateSlatesOn(results_history, matches, num_simulations)
         /\ slate_call' = [ op |-> "simulate_multiple_slates",
                            matches |-> matches, slates |-> num_simulations ]
    /\ UNCHANGED <<pc, matchVars, setVars, gameVars, tbVars, scoreVars,
                   adjVars, storeVars, callVars, last_point, variance_draws,
                   luck, games_p1, games_p2, server, service_won_p1,
                   service_played_p1, return_won_p1, return_played_p1,
                   service_won_p2, service_played_p2, return_won_p2,
                   return_played_p2, tiebreak_winner, set_dict, market,
                   match_result>>

ClearHistory ==
    /\ pc = "slate"
    /\ results_history' = <<>>
    /\ slate_call' = [ op |-> "clear_history", matches |-> None, slates |-> 0 ]
    /\ UNCHANGED <<pc, matchVars, setVars, gameVars, tbVars, scoreVars,
                   adjVars, storeVars, callVars, last_point, variance_draws,
                   luck, games_p1, games_p2, server, service_won_p1,
                   service_played_p1, return_won_p1, return_played_p1,
                   service_won_p2, service_played_p2, return_won_p2,
                   return_played_p2, tiebreak_winner, set_dict, market,
                   match_result>>

InitSlate ==
    /\ StoreFixed
    /\ pc = "slate"
    /\ MatchIdle /\ SetIdle /\ GameIdle /\ TiebreakIdle /\ ScoreIdle
    /\ AdjustIdle /\ CallIdle /\ ExtIdle

NextSlate == SimulateSlate \/ SimulateMultipleSlates \/ ClearHistory

SpecSlate == InitSlate /\ [][NextSlate]_vars

\* C29: after any sequence of simulate_slate (default id),
\* simulate_multiple_slates and clear_history calls, results_history holds one
\* SlateSimulation per slate simulated since the last clear_history, in call
\* order, and their simulation_id values are pairwise distinct.
C29_HistoryOnePerSlateDistinctIds ==
    [][pc = "slate" =>
         LET old == results_history
             new == results_history'
             call == slate_call'
         IN  /\ call.op = "clear_history" => new = <<>>
             /\ call.op # "clear_history" =>
                  /\ Len(new) = Len(old) + call.slates
                  /\ SubSeq(new, 1, Len(old)) = old
                  /\ \A i \in Len(old) + 1 .. Len(new) :
                       new[i].matches = call.matches
             /\ \A i, j \in 1..Len(new) :
                  i # j => new[i].simulation_id # new[j].simulation_id]_vars

----------------------------------------------------------------------------
(* TennisSlateSimulator.simulate_match and the score line it writes *)

\* the score string: one part "a-b" per set, joined by blanks, kept as the
\* sequence of the pairs <<a, b>>
FinalScore(set_list, winner) ==
    [i \in 1..Len(set_list) |->
        IF winner = 0
          THEN <<set_list[i].winner_games, set_list[i].loser_games>>
          ELSE <<set_list[i].loser_games, set_list[i].winner_games>>]

\* the MatchResult simulate_match builds from the statistics and the sets
\* that simulate_match_detailed returned
SlateMatchResult(stats, set_list) ==
    LET winner == IF stats.p1_stats.sets_won > stats.p2_stats.sets_won
                    THEN 0 ELSE 1
    IN  [ player1 |-> P1, player2 |-> P2, winner |-> winner,
          winner_name |-> IF winner = 0 THEN P1 ELSE P2,
          loser_name |-> IF winner = 0 THEN P2 ELSE P1,
          final_score |-> FinalScore(set_list, winner),
          player1_sets_won |-> stats.p1_stats.sets_won,
          player2_sets_won |-> stats.p2_stats.sets_won ]

\* simulate_match: the sets are those simulate_match_detailed has played, the
\* statistics those that calculate_match_stats derives from them
SlateMatchCall ==
    /\ pc = "stats_call"
    /\ match_stats' = CalculateMatchStats(sets, P1, P2)
    /\ match_result' = SlateMatchResult(CalculateMatchStats(sets, P1, P2), sets)
    /\ pc' = "slate_match_done"
    /\ UNCHANGED <<best_of_5, surface, use_variance, p1_probs, p2_probs, sets,
                   p1_sets, p2_sets, setVars, gameVars, tbVars, scoreVars,
                   adjVars, storeVars, callVars, last_point, variance_draws,
                   luck, games_p1, games_p2, server, service_won_p1,
                   service_played_p1, return_won_p1, return_played_p1,
                   service_won_p2, service_played_p2, return_won_p2,
                   return_played_p2, tiebreak_winner, set_dict, market,
                   results_history, slate_call>>

\* simulate_match leaves best_of_5 at its default
InitSlateMatch ==
    /\ pc = "stats_call"
    /\ SetIdle /\ GameIdle /\ TiebreakIdle /\ ScoreIdle /\ AdjustIdle
    /\ CallIdle /\ ExtIdle
    /\ \E st \in {TypicalStats, BigServerStats} :
         calculated_stats = [p \in Players |-> IF p = P1 THEN st ELSE NoDict]
    /\ elo_ratings = [p \in Players |-> IF p = P1 THEN 1900 ELSE 1600]
    /\ surface_elo_ratings = NoSurfaceElo
    /\ best_of_5 = FALSE
    /\ surface \in Surfaces
    /\ use_variance = TRUE
    /\ p1_probs = PlainProbs(P1, "Hard")
    /\ p2_probs = PlainProbs(P2, "Hard")
    /\ \E n \in 2..3 : \E f \in [1..n -> SetSamples] :
         LET Won(p) == Cardinality({i \in 1..n : f[i].winner = p})
         IN  /\ \E p \in Players : /\ f[n].winner = p
                                   /\ Won(p) = SetsNeeded(FALSE)
                                   /\ Won(Other(p)) < SetsNeeded(FALSE)
             /\ sets = [i \in 1..n |-> f[i]]
             /\ p1_sets = Won(P1)
             /\ p2_sets = Won(P2)
    /\ match_stats = NoStats
    /\ variance_draws = [p \in Players |-> 0]
    /\ luck = "free"

SpecSlateMatch == InitSlateMatch /\ [][SlateMatchCall]_vars

\* C30: every set of final_score is written from player1's side: the first
\* number is player1's games in that set and the second player2's, whoever won
\* the set and whoever won the match.
C30_ScoreFromPlayerOneSide ==
    pc = "slate_match_done"
      => /\ Len(match_result.final_score) = Len(sets)
         /\ \A i \in 1..Len(sets) :
              LET GamesOf(p) == IF sets[i].winner = p THEN sets[i].winner_games
                                                      ELSE sets[i].loser_games
              IN  match_result.final_score[i] = <<GamesOf(P1), GamesOf(P2)>>

====
